---- MODULE Spec2Model ----
(***************************************************************************)
(* The background-job registry of claude-daily (src/src/jobs/manager.rs)   *)
(* and the host it supervises.                                             *)
(*                                                                         *)
(* One JSON file per job in the jobs directory, a co-located log file, the *)
(* host's process table, and the operations of JobManager: register,       *)
(* load_job, mark_completed, mark_failed, list, kill, cleanup.  The unix   *)
(* build (cfg(unix)) of is_process_alive / kill_process is modelled.       *)
(*                                                                         *)
(* Around the registry: save_job as the two steps of fs::write under       *)
(* concurrent readers (SpecStore); the eligibility filter and the          *)
(* auto-spawn pass of the dashboard command (src/src/auto_summarize.rs,    *)
(* src/src/cli/commands/show.rs: SpecFilter); the jobs that summarize and  *)
(* archive (SpecSummarize); the trigger gate of show::run with its         *)
(* persisted last check (SpecGate); the two spawners and the process       *)
(* groups of their children (SpecSpawn); generate_job_id (SpecIds); the    *)
(* log reader and truncation (SpecLog); jobs log --follow (SpecFollow,     *)
(* src/src/cli/commands/jobs.rs); the errors jobs log and jobs kill        *)
(* report (SpecCli); list and cleanup over a directory with unreadable     *)
(* records (SpecBatch); one job among its spawner, a reconciling list and  *)
(* a kill (SpecRace); digest in its steps beside the archiving jobs        *)
(* (SpecDigest, src/src/cli/commands/digest.rs); and sanitize_name over    *)
(* task names (SpecSanitize).                                              *)
(***************************************************************************)
EXTENDS Integers, Sequences, FiniteSets, TLC

(* ------------------------------ bounds --------------------------------- *)
\* The clock (Local::now(), in days) runs from 0 to MaxNow.
MaxNow == 2
\* cleanup's keep_days argument ranges over 0..MaxKeepDays.
MaxKeepDays == 1

JobIds == {"j1", "j2"}
\* The pid the host gives the process spawned for a job (child.id()): each
\* job's process has a pid of its own, and pids are not reused.
PidOf == [id \in JobIds |-> IF id = "j1" THEN 4242 ELSE 4243]
Pids == {PidOf[id] : id \in JobIds}
\* The unit of work a job is spawned for: its task name and its transcript.
UnitOf == [id \in JobIds |->
             IF id = "j1"
             THEN [task_name |-> "auto-abc123", transcript_path |-> "/tmp/t.jsonl"]
             ELSE [task_name |-> "proj-120000", transcript_path |-> "/tmp/u.jsonl"]]
\* The error text a job reports when its summarization fails.
SelfReportErrors == {"Failed to summarize session"}

(* --------------------------- JobStatus, JobInfo ------------------------ *)
\* enum JobStatus { Running, Completed, Failed { error } }
Running == <<"Running">>
Completed == <<"Completed">>
Failed(error) == <<"Failed", error>>

\* Option<DateTime<Local>>
None == <<>>
Some(t) == <<t>>

JobInfo(id, pid, task_name, transcript_path, started_at, finished_at, status) ==
    [id |-> id, pid |-> pid, task_name |-> task_name,
     transcript_path |-> transcript_path, started_at |-> started_at,
     finished_at |-> finished_at, status |-> status]

(* --------------------- serde_json encoding of a JobInfo ---------------- *)
\* A unit variant is written as its name, the struct variant as
\* {"Failed": {"error": ...}}; None is written as null, a timestamp as an
\* RFC 3339 string.
StatusToJson(status) ==
    IF Len(status) = 1 THEN <<status[1]>>
    ELSE <<"Failed", "error", status[2]>>

StatusFromJson(js) ==
    IF Len(js) = 1 THEN <<js[1]>>
    ELSE <<js[1], js[3]>>

OptionToJson(opt) ==
    IF Len(opt) = 0 THEN <<"null">> ELSE <<"rfc3339", opt[1]>>

OptionFromJson(js) ==
    IF Len(js) = 1 THEN None ELSE Some(js[2])

ToJson(info) ==
    [id |-> info.id, pid |-> info.pid, task_name |-> info.task_name,
     transcript_path |-> info.transcript_path,
     started_at |-> <<"rfc3339", info.started_at>>,
     finished_at |-> OptionToJson(info.finished_at),
     status |-> StatusToJson(info.status)]

FromJson(js) ==
    JobInfo(js.id, js.pid, js.task_name, js.transcript_path,
            js.started_at[2], OptionFromJson(js.finished_at),
            StatusFromJson(js.status))

(* ------------------------------- state --------------------------------- *)
VARIABLES
    files,    \* the <id>.json files of the jobs directory: id -> JSON text
    logs,     \* the ids whose <id>.log file exists
    host,     \* the host's process table: pid -> process
    now,      \* the wall clock
    ret,      \* the operation that has returned and whose result its caller
              \* has not yet taken: its name, arguments and return value
    wr,       \* the save_job whose fs::write has created (truncated) its
              \* file and not yet written the content
    transcripts,  \* the *.jsonl files under ~/.claude/projects: path -> file
    sessions,     \* the session archives (*.md) under the storage path:
                  \* the frontmatter of each
    config,   \* the configuration file: the auto-summarize settings
    tod,      \* the wall clock's time of day, in minutes after midnight
    shows,    \* each invocation of the dashboard command: its position in
              \* show::run and the configuration it has loaded
    grants,   \* per day, the attempts the time-based policy has authorized
              \* (0, 1, or 2 for more than one)
    pgrp,     \* the pids that are in the process group of their spawner
    issued,   \* the job ids generate_job_id has returned, in order
    nanos,    \* the system clock of generate_job_id: ticks since the epoch
    logtext,  \* the content of the <id>.log files that are read: id -> text
    follow,   \* `jobs log --follow`: its position in follow_log, its offset
              \* and what it has printed
    tasks     \* the processes that run beside one another on one job: the
              \* position of each and what it has loaded

vars == <<files, logs, host, now, ret, wr, transcripts, sessions,
          config, tod, shows, grants, pgrp, issued, nanos, logtext, follow, tasks>>
\* The id generator and the log reader.
idsAndLogs == <<issued, nanos, logtext, follow, tasks>>
\* What the auto-spawn pass and the jobs leave alone.
outsideSpawner == <<config, tod, shows, grants, idsAndLogs>>
\* What the operations of the registry, taken one call at a time, leave alone.
outsideRegistry == <<wr, transcripts, sessions, config, tod, shows, grants, pgrp,
                    idsAndLogs>>
\* What the processes that share the jobs directory leave alone.
outsideStore == <<transcripts, sessions, config, tod, shows, grants, pgrp,
                 idsAndLogs>>

\* A process table entry: "absent", "live" or "zombie" (exited, not yet
\* waited for by its parent).
NoProcess == "absent"

\* No result is waiting for its caller.
NoResult == [op |-> "none", id |-> "", arg |-> 0, ok |-> TRUE, val |-> 0]

Result(op, id, arg, ok, val) ==
    [op |-> op, id |-> id, arg |-> arg, ok |-> ok, val |-> val]

\* The text of a file that fs::write has created or truncated (File::create)
\* and not yet written: zero bytes.
EmptyFile == [len |-> 0]

\* No save_job is between its two steps.  before: the file's text before
\* File::create, None for a file that did not exist.
NoSave == [id |-> "", content |-> EmptyFile, before |-> None]

\* The auto-summarize settings of SummarizationConfig as Config::default()
\* gives them.
DefaultConfig ==
    [auto_summarize_enabled |-> TRUE,
     auto_summarize_time |-> "06:00",
     last_auto_summarize_check |-> None,
     auto_summarize_on_show |-> FALSE]

\* The invocations of the dashboard command that may run at the same time.
Invocations == {"show1", "show2"}

\* No process is at work on a job: the spawner has not started, the job
\* does not run, no list, no kill and no digest is under way.
NoTasks ==
    [spawner |-> "idle",
     job |-> [pc |-> "none", ok |-> TRUE, saved |-> "none"],
     lister |-> [pc |-> "idle", info |-> None],
     killer |-> "idle",
     digest |-> [pc |-> "idle", summary |-> {}, saved |-> FALSE, deleted |-> {}]]

\* No `jobs log --follow` runs.  pc: "idle", "polling" (before a poll),
\* "reading" (the poll has taken the file's length) or "done".
NoFollow == [pc |-> "idle", id |-> "", last_pos |-> 0, file_len |-> 0, out |-> <<>>]

\* No dashboard command is running, and the configuration is the default;
\* no id has been generated, no log is read.
NoShowRuns ==
    /\ config = DefaultConfig
    /\ tod = 600
    /\ shows = [i \in Invocations |-> [pc |-> "idle", config |-> DefaultConfig]]
    /\ grants = [d \in 0..MaxNow |-> 0]
    /\ pgrp = {}
    /\ issued = <<>>
    /\ nanos = [sec |-> 0, word |-> <<0, 0>>, subsec |-> 0]
    /\ tasks = NoTasks
    /\ logtext = [i \in {} |-> 0]
    /\ follow = NoFollow

Init ==
    /\ files = [i \in {} |-> 0]
    /\ logs = {}
    /\ host = [p \in Pids |-> NoProcess]
    /\ now = 0
    /\ ret = NoResult
    /\ wr = NoSave
    /\ transcripts = [p \in {} |-> 0]
    /\ sessions = {}
    /\ NoShowRuns

(* --------------------------- ProcessProbe ------------------------------ *)
\* libc::kill(pid, sig) as the caller sees it.  perm: the calling user may
\* signal the processes of the user who spawned the jobs.  A zombie still
\* holds its pid, so a signal to it succeeds.
LibcKill(h, pid, perm) ==
    IF h[pid] = NoProcess THEN "ESRCH"
    ELSE IF ~perm THEN "EPERM"
    ELSE "0"

\* fn is_process_alive(pid): kill(pid, 0) == 0
is_process_alive(h, pid, perm) == LibcKill(h, pid, perm) = "0"

\* fn kill_process(pid): kill(pid, SIGTERM) == 0
kill_process(h, pid, perm) == LibcKill(h, pid, perm) = "0"

(* ----------------------------- JobManager ------------------------------ *)
Ok(dir, val) == [ok |-> TRUE, dir |-> dir, val |-> val]
Err(dir, why) == [ok |-> FALSE, dir |-> dir, val |-> why]

\* fn save_job(&self, info): fs::write(job_path(info.id), to_string_pretty(info))
save_job(dir, info) ==
    [i \in (DOMAIN dir) \cup {info.id} |->
        IF i = info.id THEN ToJson(info) ELSE dir[i]]

\* serde_json::from_str::<JobInfo>(text): zero bytes are not a JobInfo.
from_str(text) ==
    IF text = EmptyFile
    THEN [ok |-> FALSE, val |-> "EOF while parsing a value"]
    ELSE [ok |-> TRUE, val |-> FromJson(text)]

\* fn load_job(&self, job_id): read_to_string + from_str
load_job(dir, job_id) ==
    IF job_id \notin DOMAIN dir THEN Err(dir, "Failed to read job info")
    ELSE IF ~from_str(dir[job_id]).ok THEN Err(dir, "Failed to parse job info")
    ELSE Ok(dir, from_str(dir[job_id]).val)

\* register with its two string arguments stored in each other's field.
register_swapped(dir, job_id, pid, task_name, transcript_path, t) ==
    LET info == JobInfo(job_id, pid, transcript_path, task_name, t, None, Running)
    IN  [ok |-> TRUE, dir |-> save_job(dir, info), val |-> info]

\* fn register(&self, job_id, pid, task_name, transcript_path)
register(dir, job_id, pid, task_name, transcript_path, t) ==
    LET info == JobInfo(job_id, pid, task_name, transcript_path, t, None, Running)
    IN  Ok(save_job(dir, info), info)

\* mark_completed without the assignment to finished_at.
mark_completed_unfinished(dir, job_id, t) ==
    LET loaded == load_job(dir, job_id)
    IN  IF ~loaded.ok THEN loaded
        ELSE [ok |-> TRUE,
              dir |-> save_job(dir, [loaded.val EXCEPT !.status = Completed]),
              val |-> "unit"]

\* fn mark_completed(&self, job_id)
mark_completed(dir, job_id, t) ==
    LET loaded == load_job(dir, job_id)
    IN  IF ~loaded.ok THEN loaded
        ELSE LET info == [loaded.val EXCEPT !.status = Completed,
                                            !.finished_at = Some(t)]
             IN  Ok(save_job(dir, info), "unit")

\* fn mark_failed(&self, job_id, error)
mark_failed(dir, job_id, error, t) ==
    LET loaded == load_job(dir, job_id)
    IN  IF ~loaded.ok THEN loaded
        ELSE LET info == [loaded.val EXCEPT !.status = Failed(error),
                                            !.finished_at = Some(t)]
             IN  Ok(save_job(dir, info), "unit")

\* The body of list's loop for one directory entry: the record as list holds
\* it after the liveness re-check.
Reconciled(info, h, perm, t) ==
    IF info.status = Running /\ ~is_process_alive(h, info.pid, perm)
    THEN [info EXCEPT !.status = Failed("Process terminated unexpectedly"),
                      !.finished_at = Some(t)]
    ELSE info

\* jobs.sort_by(|a, b| b.started_at.cmp(&a.started_at)): a stable sort,
\* newest first.
RECURSIVE InsertNewestFirst(_, _)
InsertNewestFirst(sorted, x) ==
    IF sorted = <<>> THEN <<x>>
    ELSE IF sorted[Len(sorted)].started_at >= x.started_at
         THEN Append(sorted, x)
         ELSE Append(InsertNewestFirst(SubSeq(sorted, 1, Len(sorted) - 1), x),
                     sorted[Len(sorted)])

RECURSIVE SortNewestFirst(_)
SortNewestFirst(s) ==
    IF s = <<>> THEN <<>>
    ELSE InsertNewestFirst(SortNewestFirst(SubSeq(s, 1, Len(s) - 1)), s[Len(s)])

\* The orders in which fs::read_dir may yield the entries of the directory.
ReadDirOrders(dir) ==
    LET n == Cardinality(DOMAIN dir)
    IN  {o \in [1..n -> DOMAIN dir] : \A a, b \in 1..n : a # b => o[a] # o[b]}

RECURSIVE Pushed(_, _, _, _, _, _)
Pushed(dir, order, h, perm, include_completed, t) ==
    IF order = <<>> THEN <<>>
    ELSE LET rest == Pushed(dir, SubSeq(order, 1, Len(order) - 1), h, perm,
                            include_completed, t)
             parsed == from_str(dir[order[Len(order)]])
             info == Reconciled(parsed.val, h, perm, t)
         IN  IF parsed.ok /\ (include_completed \/ info.status = Running)
             THEN Append(rest, info)
             ELSE rest

\* list without its final sort: the records in the order of read_dir.
list_unsorted(dir, order, h, perm, include_completed, t) ==
    LET saved == [i \in DOMAIN dir |->
                    IF from_str(dir[i]).ok
                    THEN ToJson(Reconciled(from_str(dir[i]).val, h, perm, t))
                    ELSE dir[i]]
    IN  Ok(saved, Pushed(dir, order, h, perm, include_completed, t))

\* list without the save_job of a reconciled record.
list_unsaved(dir, order, h, perm, include_completed, t) ==
    [ok |-> TRUE, dir |-> dir,
     val |-> SortNewestFirst(Pushed(dir, order, h, perm, include_completed, t))]

\* fn list(&self, include_completed)
list(dir, order, h, perm, include_completed, t) ==
    LET saved == [i \in DOMAIN dir |->
                    IF from_str(dir[i]).ok
                    THEN ToJson(Reconciled(from_str(dir[i]).val, h, perm, t))
                    ELSE dir[i]]
    IN  Ok(saved, SortNewestFirst(Pushed(dir, order, h, perm, include_completed, t)))

\* kill that returns the signal's outcome without recording it.
kill_unrecorded(dir, h, job_id, perm, t) ==
    LET loaded == load_job(dir, job_id)
    IN  IF ~loaded.ok THEN [loaded EXCEPT !.val = "Failed to read job info"] @@ [sent |-> {}]
        ELSE IF loaded.val.status # Running THEN Ok(dir, FALSE) @@ [sent |-> {}]
        ELSE Ok(dir, kill_process(h, loaded.val.pid, perm)) @@ [sent |-> {loaded.val.pid}]

\* kill that records the failure whatever the signal's outcome.
kill_always_marks(dir, h, job_id, perm, t) ==
    LET loaded == load_job(dir, job_id)
    IN  IF ~loaded.ok THEN [loaded EXCEPT !.val = "Failed to read job info"] @@ [sent |-> {}]
        ELSE IF loaded.val.status # Running THEN Ok(dir, FALSE) @@ [sent |-> {}]
        ELSE Ok(mark_failed(dir, job_id, "Killed by user", t).dir,
                kill_process(h, loaded.val.pid, perm)) @@ [sent |-> {loaded.val.pid}]

\* fn kill(&self, job_id).  sent: the pids kill_process was called with.
kill(dir, h, job_id, perm, t) ==
    LET loaded == load_job(dir, job_id)
    IN  IF ~loaded.ok THEN [loaded EXCEPT !.val = "Failed to read job info"] @@ [sent |-> {}]
        ELSE IF loaded.val.status # Running THEN Ok(dir, FALSE) @@ [sent |-> {}]
        ELSE LET killed == kill_process(h, loaded.val.pid, perm)
                 marked == IF killed THEN mark_failed(dir, job_id, "Killed by user", t)
                           ELSE Ok(dir, "unit")
             IN  Ok(marked.dir, killed) @@ [sent |-> {loaded.val.pid}]

\* The removal test without the status check.
Removable_any_status(js, cutoff) == FromJson(js).started_at < cutoff

\* fn cleanup(&self, keep_days): the directory and the logs it leaves, and
\* the count it returns.
Removable(js, cutoff) ==
    LET info == from_str(js)
    IN  info.ok /\ info.val.status # Running /\ info.val.started_at < cutoff

\* may_unlink: the caller may remove entries of the jobs directory (the
\* directory is writable for it), so that fs::remove_file succeeds; its
\* result is discarded (let _ =) and removed is incremented either way.
cleanup(dir, logfiles, keep_days, t, may_unlink) ==
    LET cutoff == t - keep_days
        old == {i \in DOMAIN dir : Removable(dir[i], cutoff)}
        gone == IF may_unlink THEN old ELSE {}
    IN  [ok |-> TRUE,
         dir |-> [i \in (DOMAIN dir) \ gone |-> dir[i]],
         logs |-> logfiles \ gone,
         val |-> Cardinality(old)]

\* jobs cleanup --days N --dry-run: the directory list(true) leaves and the
\* jobs the command prints after "Would remove".
cleanup_dry_run(dir, order, h, perm, days, t) ==
    LET jobs == list(dir, order, h, perm, TRUE, t)
        cutoff == t - days
        to_remove(j) == j.status # Running /\ j.started_at < cutoff
    IN  Ok(jobs.dir, SelectSeq(jobs.val, to_remove))

(* ------------------------------ actions -------------------------------- *)
\* The session-end hook / the auto-summarize spawner for one unit: generate
\* a job id, create the log file, spawn the detached process, register it.
SpawnJob(id) ==
    /\ ret = NoResult
    /\ id \notin DOMAIN files
    /\ id \notin logs
    /\ host[PidOf[id]] = NoProcess
    /\ LET r == register(files, id, PidOf[id], UnitOf[id].task_name,
                         UnitOf[id].transcript_path, now)
       IN  /\ files' = r.dir
           /\ ret' = Result("register", id, 0, r.ok, r.val)
    /\ logs' = logs \cup {id}
    /\ host' = [host EXCEPT ![PidOf[id]] = "live"]
    /\ UNCHANGED now
    /\ UNCHANGED outsideRegistry

\* The job reports success: summarize --job-id ... --foreground.
MarkCompleted(id) ==
    /\ ret = NoResult
    /\ LET r == mark_completed(files, id, now)
       IN  /\ files' = r.dir
           /\ ret' = Result("mark_completed", id, 0, r.ok, r.val)
    /\ UNCHANGED <<logs, host, now>>
    /\ UNCHANGED outsideRegistry

MarkFailed(id, error) ==
    /\ ret = NoResult
    /\ LET r == mark_failed(files, id, error, now)
       IN  /\ files' = r.dir
           /\ ret' = Result("mark_failed", id, error, r.ok, r.val)
    /\ UNCHANGED <<logs, host, now>>
    /\ UNCHANGED outsideRegistry

\* jobs list [--all], the dashboard's /api/jobs.
List(include_completed, perm) ==
    /\ ret = NoResult
    /\ \E order \in ReadDirOrders(files) :
          LET r == list(files, order, host, perm, include_completed, now)
          IN  /\ files' = r.dir
              /\ ret' = Result("list", "",
                               [include_completed |-> include_completed, perm |-> perm],
                               r.ok, r.val)
    /\ UNCHANGED <<logs, host, now>>
    /\ UNCHANGED outsideRegistry

\* jobs kill <id>, the dashboard's kill_job.
Kill(id, perm) ==
    /\ ret = NoResult
    /\ LET r == kill(files, host, id, perm, now)
       IN  /\ files' = r.dir
           /\ ret' = Result("kill", id, [perm |-> perm, sent |-> r.sent], r.ok, r.val)
    /\ UNCHANGED <<logs, host, now>>
    /\ UNCHANGED outsideRegistry

\* jobs cleanup --days N.
Cleanup(keep_days, may_unlink) ==
    /\ ret = NoResult
    /\ LET r == cleanup(files, logs, keep_days, now, may_unlink)
       IN  /\ files' = r.dir
           /\ logs' = r.logs
           /\ ret' = Result("cleanup", "",
                            [keep_days |-> keep_days, may_unlink |-> may_unlink],
                            r.ok, r.val)
    /\ UNCHANGED <<host, now>>
    /\ UNCHANGED outsideRegistry

\* jobs cleanup --days N --dry-run.
CleanupDryRun(days, perm) ==
    /\ ret = NoResult
    /\ \E order \in ReadDirOrders(files) :
          LET r == cleanup_dry_run(files, order, host, perm, days, now)
          IN  /\ files' = r.dir
              /\ ret' = Result("cleanup_dry_run", "",
                               [days |-> days, perm |-> perm], r.ok, r.val)
    /\ UNCHANGED <<logs, host, now>>
    /\ UNCHANGED outsideRegistry

\* A job's process ends (exit, crash, or the default action of SIGTERM).
\* parent_runs: the controller that spawned it is still running (the
\* dashboard server) instead of having exited after the spawn (the hook);
\* its child then stays in the table as a zombie, since nothing in the
\* controller waits for it.
ProcessExit(pid, parent_runs) ==
    /\ ret = NoResult
    /\ host[pid] = "live"
    /\ host' = [host EXCEPT ![pid] = IF parent_runs THEN "zombie" ELSE NoProcess]
    /\ UNCHANGED <<files, logs, now, ret>>
    /\ UNCHANGED outsideRegistry

\* The controller that spawned pid exits: its zombie is reaped by init.
ControllerExit(pid) ==
    /\ ret = NoResult
    /\ host[pid] = "zombie"
    /\ host' = [host EXCEPT ![pid] = NoProcess]
    /\ UNCHANGED <<files, logs, now, ret>>
    /\ UNCHANGED outsideRegistry

Tick ==
    /\ ret = NoResult
    /\ now < MaxNow
    /\ now' = now + 1
    /\ UNCHANGED <<files, logs, host, ret>>
    /\ UNCHANGED outsideRegistry

\* The caller takes the result of the operation that has returned.
Return ==
    /\ ret # NoResult
    /\ ret' = NoResult
    /\ UNCHANGED <<files, logs, host, now>>
    /\ UNCHANGED outsideRegistry

Next ==
    \/ \E id \in JobIds : SpawnJob(id)
    \/ \E id \in JobIds : MarkCompleted(id)
    \/ \E id \in JobIds, error \in SelfReportErrors : MarkFailed(id, error)
    \/ \E include_completed \in BOOLEAN, perm \in BOOLEAN : List(include_completed, perm)
    \/ \E id \in JobIds, perm \in BOOLEAN : Kill(id, perm)
    \/ \E keep_days \in 0..MaxKeepDays, may_unlink \in BOOLEAN :
          Cleanup(keep_days, may_unlink)
    \/ \E days \in 0..MaxKeepDays, perm \in BOOLEAN : CleanupDryRun(days, perm)
    \/ \E pid \in Pids, parent_runs \in BOOLEAN : ProcessExit(pid, parent_runs)
    \/ \E pid \in Pids : ControllerExit(pid)
    \/ Tick
    \/ Return

Spec == Init /\ [][Next]_vars

(* ------------- the registry under concurrent controllers --------------- *)
\* save_job is fs::write(&path, content): File::create, which creates the
\* file or truncates it to zero bytes, and then write_all.  Other processes
\* (a job reporting, jobs list, the dashboard) run between the two.

\* File::create(job_path(id))
FileCreate(dir, id) ==
    [i \in (DOMAIN dir) \cup {id} |-> IF i = id THEN EmptyFile ELSE dir[i]]

\* write_all(content) on the file File::create has opened.
WriteAll(dir, id, content) ==
    [i \in DOMAIN dir |-> IF i = id THEN content ELSE dir[i]]

\* The first step of the save_job of an operation whose result is r.
BeginSave(id, r) ==
    /\ ret = NoResult
    /\ wr = NoSave
    /\ r.ok
    /\ files' = FileCreate(files, id)
    /\ wr' = [id |-> id, content |-> r.dir[id],
              before |-> IF id \in DOMAIN files THEN Some(files[id]) ELSE None]

\* The spawner registers the job it has just spawned.
RegisterBegins(id) ==
    /\ id \notin DOMAIN files
    /\ host[PidOf[id]] = NoProcess
    /\ BeginSave(id, register(files, id, PidOf[id], UnitOf[id].task_name,
                               UnitOf[id].transcript_path, now))
    /\ logs' = logs \cup {id}
    /\ host' = [host EXCEPT ![PidOf[id]] = "live"]
    /\ UNCHANGED <<now, ret>>
    /\ UNCHANGED outsideStore

MarkCompletedBegins(id) ==
    /\ BeginSave(id, mark_completed(files, id, now))
    /\ UNCHANGED <<logs, host, now, ret>>
    /\ UNCHANGED outsideStore

MarkFailedBegins(id, error) ==
    /\ BeginSave(id, mark_failed(files, id, error, now))
    /\ UNCHANGED <<logs, host, now, ret>>
    /\ UNCHANGED outsideStore

\* The second step of the save_job in flight.
SaveEnds ==
    /\ ret = NoResult
    /\ wr # NoSave
    /\ files' = WriteAll(files, wr.id, wr.content)
    /\ wr' = NoSave
    /\ UNCHANGED <<logs, host, now, ret>>
    /\ UNCHANGED outsideStore

\* Another process loads a record: jobs log, jobs kill, the dashboard.
ConcurrentLoad(id) ==
    /\ ret = NoResult
    /\ LET r == load_job(files, id)
       IN  ret' = Result("load_job", id, 0, r.ok, r.val)
    /\ UNCHANGED <<files, logs, host, now, wr>>
    /\ UNCHANGED outsideStore

\* Another process lists the jobs.
ConcurrentList(include_completed) ==
    /\ ret = NoResult
    /\ \E order \in ReadDirOrders(files) :
          LET r == list(files, order, host, TRUE, include_completed, now)
          IN  /\ files' = r.dir
              /\ ret' = Result("list", "",
                               [include_completed |-> include_completed, perm |-> TRUE],
                               r.ok, r.val)
    /\ UNCHANGED <<logs, host, now, wr>>
    /\ UNCHANGED outsideStore

NextStore ==
    \/ \E id \in JobIds : RegisterBegins(id)
    \/ \E id \in JobIds : MarkCompletedBegins(id)
    \/ \E id \in JobIds, error \in SelfReportErrors : MarkFailedBegins(id, error)
    \/ SaveEnds
    \/ \E id \in JobIds : ConcurrentLoad(id)
    \/ \E include_completed \in BOOLEAN : ConcurrentList(include_completed)
    \/ Return

SpecStore == Init /\ [][NextStore]_vars

(* ------------- EligibilityFilter: src/src/auto_summarize.rs ------------ *)
\* A path is the sequence of the pieces between its ':' characters.
Paths == {<<"/p/a.jsonl">>, <<"/p/b.jsonl">>, <<"/p/c.jsonl">>, <<"/p/12", "30.jsonl">>}
\* transcript_path.file_stem()
file_stem == [p \in Paths |->
                CASE p = <<"/p/a.jsonl">> -> "a"
                  [] p = <<"/p/b.jsonl">> -> "b"
                  [] p = <<"/p/c.jsonl">> -> "c"
                  [] OTHER -> "12:30"]
\* The pid the host gives the process spawned for a unit.
AutoPid == [p \in Paths |->
              CASE p = <<"/p/a.jsonl">> -> 5001
                [] p = <<"/p/b.jsonl">> -> 5002
                [] p = <<"/p/c.jsonl">> -> 5003
                [] OTHER -> 5004]
AutoPids == {AutoPid[p] : p \in Paths}

\* Local::now() as seconds, read at 10:00 of day d; the local date of an
\* instant.
LocalSecs(d) == d * 86400 + 36000
LocalDate(secs) == secs \div 86400

\* The lines of a transcript: a user entry, an assistant entry, or a line
\* that is not a TranscriptEntry.
UserLine(text) == [type |-> "user", content |-> text]
AssistantLine(text) == [type |-> "assistant", content |-> text]
MalformedLine == [type |-> "malformed", content |-> "{"]

Transcript(mtime, readable, lines) ==
    [mtime |-> mtime, readable |-> readable, lines |-> lines]

\* The seconds since the last modification: 5, 30 and 40 minutes, 20 hours
\* (yesterday), 40 hours (the day before yesterday).
Ages == {300, 1800, 2400, 72000, 144000}
Contents ==
    { [readable |-> FALSE, lines |-> <<UserLine("fix the bug")>>],
      [readable |-> TRUE, lines |-> <<MalformedLine>>],
      [readable |-> TRUE, lines |-> <<UserLine("  "), AssistantLine("Hello")>>],
      [readable |-> TRUE, lines |-> <<MalformedLine, UserLine("fix the bug"),
                                      AssistantLine("Done")>>] }
StandardUnit(t) ==
    Transcript(t - 2400, TRUE,
               <<MalformedLine, UserLine("fix the bug"), AssistantLine("Done")>>)
UnitKinds(t) ==
    {Transcript(t - a, c.readable, c.lines) : a \in Ages, c \in Contents}

\* TranscriptParser::parse: the user messages of the file.
parse(tr) ==
    IF ~tr.readable
    THEN [ok |-> FALSE, val |-> "Failed to open transcript file"]
    ELSE LET IsUser(l) == l.type = "user"
             users == SelectSeq(tr.lines, IsUser)
         IN  [ok |-> TRUE,
              val |-> [user_messages |-> [k \in 1..Len(users) |-> users[k].content]]]

\* str::trim on the messages of the model.
trim(msg) == IF msg \in {"", " ", "  "} THEN "" ELSE msg

\* TranscriptData::is_empty with the whitespace test left out.
is_empty_no_messages(data) == Len(data.user_messages) = 0

\* TranscriptData::is_empty
is_empty(data) ==
    \/ Len(data.user_messages) = 0
    \/ \A k \in 1..Len(data.user_messages) : trim(data.user_messages[k]) = ""

\* is_transcript_active that never finds a transcript active.
is_transcript_active_never(tr, t, inactive_minutes) == FALSE

\* fn is_transcript_active(path, inactive_minutes): modified.elapsed() is an
\* Err for a modification time in the future.
is_transcript_active(tr, t, inactive_minutes) ==
    IF tr.mtime > t THEN FALSE
    ELSE (t - tr.mtime) < inactive_minutes * 60

\* fn is_transcript_from_yesterday(path)
is_transcript_from_yesterday(tr, t) ==
    LET modified_date == LocalDate(tr.mtime)
        yesterday == LocalDate(t - 86400)
        today == LocalDate(t)
    IN  modified_date = yesterday \/ modified_date = today

\* A frontmatter line as line.split(':') yields it: the key, then the pieces
\* of the value; pad is the white space and quotes around a piece.
Field(text) == [pad |-> " ", text |-> text]
Line(key, value) ==
    <<key>> \o [k \in 1..Len(value) |->
                  IF k = 1 THEN Field(value[1]) ELSE [pad |-> "", text |-> value[k]]]
\* path.trim().trim_matches('"')
trim_matches(field) == field.text

\* SessionArchive::to_markdown: the frontmatter Templates::session_archive
\* is given (title, date, session id, cwd; git branch, duration, tool
\* calls).  The transcript's path is not among its arguments.  In the model
\* the title (time and topic) of a unit's archive is the unit's session id.
to_markdown(title, date, session_id, cwd) ==
    << Line("title", <<title>>), Line("date", <<date>>),
       Line("session_id", <<session_id>>), Line("cwd", <<cwd>>) >>

\* A session archive whose frontmatter carries a transcript_path line.
WithTranscriptPath(frontmatter, path) ==
    Append(frontmatter, Line("transcript_path", path))

\* fn get_archived_transcript_paths(config)
get_archived_transcript_paths(archive) ==
    LET lines == UNION {{fm[k] : k \in 1..Len(fm)} : fm \in archive}
        path_lines == {l \in lines : l[1] = "transcript_path"}
    IN  {<<trim_matches(l[2])>> : l \in {x \in path_lines : trim_matches(x[2]) # "N/A"}}

\* The loop of find_unsummarized_transcripts over the transcripts in the
\* order find_all_transcripts returned them; it breaks at cap.
RECURSIVE Scan(_, _, _, _, _, _, _)
Scan(ts, order, archived_paths, t, inactive_minutes, unsummarized, cap) ==
    IF order = <<>> THEN unsummarized
    ELSE LET transcript_path == Head(order)
             tr == ts[transcript_path]
             data == parse(tr)
             continue == Scan(ts, Tail(order), archived_paths, t, inactive_minutes,
                              unsummarized, cap)
             pushed == Append(unsummarized, transcript_path)
         IN  IF ~is_transcript_from_yesterday(tr, t) THEN continue
             ELSE IF is_transcript_active(tr, t, inactive_minutes) THEN continue
             ELSE IF transcript_path \in archived_paths THEN continue
             ELSE IF ~data.ok THEN continue
             ELSE IF is_empty(data.val) THEN continue
             ELSE IF Len(pushed) >= cap THEN pushed
             ELSE Scan(ts, Tail(order), archived_paths, t, inactive_minutes,
                       pushed, cap)

\* const MAX_AUTO_SUMMARIZE: usize = 3
MAX_AUTO_SUMMARIZE == 3
\* fn default_auto_summarize_inactive_minutes() -> u64
default_auto_summarize_inactive_minutes == 30

\* find_unsummarized_transcripts without the break at MAX_AUTO_SUMMARIZE.
find_unsummarized_uncapped(ts, order, archive, t, inactive_minutes) ==
    Scan(ts, order, get_archived_transcript_paths(archive), t, inactive_minutes,
         <<>>, Len(order) + 1)

\* pub fn find_unsummarized_transcripts(config)
find_unsummarized_transcripts(ts, order, archive, t, inactive_minutes) ==
    Scan(ts, order, get_archived_transcript_paths(archive), t, inactive_minutes,
         <<>>, MAX_AUTO_SUMMARIZE)

(* ------------- Spawner: trigger_auto_summarize (show.rs) --------------- *)
\* JobManager::generate_job_id(format!("auto-{}", session_id))
JobIdOf(p) == <<"auto", file_stem[p]>>

\* The loop that gives up at the first unit whose spawn fails.
RECURSIVE SpawnEachUntilFailure(_, _, _, _, _, _)
SpawnEachUntilFailure(found, k, acc, spawn_ok, register_ok, t) ==
    IF k > Len(found) THEN acc
    ELSE LET p == found[k]
             job_id == JobIdOf(p)
             created == [acc EXCEPT !.logs = @ \cup {job_id},
                                    !.attempts = Append(@, p)]
             spawned == [created EXCEPT !.host[AutoPid[p]] = "live",
                                        !.pgrp = @ \ {AutoPid[p]}]
         IN  IF p \notin spawn_ok
             THEN [created EXCEPT !.reported =
                      Append(@, <<"Failed to spawn auto-summarize process", p>>)]
             ELSE SpawnEachUntilFailure(
                      found, k + 1,
                      IF p \in register_ok
                      THEN [spawned EXCEPT
                               !.dir = register(acc.dir, job_id, AutoPid[p],
                                                <<"auto", file_stem[p]>>, p, t).dir,
                               !.spawned_count = @ + 1]
                      ELSE [spawned EXCEPT !.reported =
                               Append(@, <<"Failed to register auto-summarize job", p>>)],
                      spawn_ok, register_ok, t)

\* The loop of trigger_auto_summarize over the transcripts found, from the
\* k-th on: the log file is created, the process spawned in a process group
\* of its own and, if that succeeded, registered.  spawn_ok: the units for
\* which cmd.spawn() returns a child; register_ok: those for which the
\* registry accepts the record.  acc: the directory, the logs, the process
\* table, the pids sharing the spawner's group, the count, the units for
\* which cmd.spawn() was called and the failures printed.
RECURSIVE SpawnEach(_, _, _, _, _, _)
SpawnEach(found, k, acc, spawn_ok, register_ok, t) ==
    IF k > Len(found) THEN acc
    ELSE LET p == found[k]
             job_id == JobIdOf(p)
             created == [acc EXCEPT !.logs = @ \cup {job_id},
                                    !.attempts = Append(@, p)]
             registered == register(acc.dir, job_id, AutoPid[p],
                                    <<"auto", file_stem[p]>>, p, t)
             spawned == [created EXCEPT !.host[AutoPid[p]] = "live",
                                        !.pgrp = @ \ {AutoPid[p]}]
             after ==
                 IF p \in spawn_ok
                 THEN IF p \in register_ok
                      THEN [spawned EXCEPT !.dir = registered.dir,
                                           !.spawned_count = @ + 1]
                      ELSE [spawned EXCEPT !.reported =
                               Append(@, <<"Failed to register auto-summarize job", p>>)]
                 ELSE [created EXCEPT !.reported =
                          Append(@, <<"Failed to spawn auto-summarize process", p>>)]
         IN  SpawnEach(found, k + 1, after, spawn_ok, register_ok, t)

\* async fn trigger_auto_summarize(config)
trigger_auto_summarize(ts, order, archive, dir, logfiles, h, grp, spawn_ok, register_ok, t) ==
    LET unsummarized == find_unsummarized_transcripts(
                            ts, order, archive, LocalSecs(t),
                            default_auto_summarize_inactive_minutes)
    IN  SpawnEach(unsummarized, 1,
                  [dir |-> dir, logs |-> logfiles, host |-> h, pgrp |-> grp,
                   spawned_count |-> 0, attempts |-> <<>>, reported |-> <<>>],
                  spawn_ok, register_ok, t)
           @@ [found |-> unsummarized]

\* An auto-spawn attempt of the dashboard command.  In the model a unit has
\* one job id, so an attempt runs while the ids it generates are unused: no
\* record and no log file carries them.
AutoSpawn(spawn_ok, register_ok) ==
    /\ ret = NoResult
    /\ \E order \in ReadDirOrders(transcripts) :
          \E r \in {trigger_auto_summarize(transcripts, order, sessions, files, logs,
                                           host, pgrp, spawn_ok, register_ok, now)} :
              /\ \A k \in 1..Len(r.found) :
                    JobIdOf(r.found[k]) \notin (DOMAIN files) \cup logs
              /\ files' = r.dir
              /\ logs' = r.logs
              /\ host' = r.host
              /\ pgrp' = r.pgrp
              /\ ret' = Result("trigger_auto_summarize", "",
                               [spawn_ok |-> spawn_ok, register_ok |-> register_ok],
                               TRUE,
                               [found |-> r.found, spawned_count |-> r.spawned_count,
                                attempts |-> r.attempts, reported |-> r.reported])
    /\ UNCHANGED <<now, wr, transcripts, sessions>>
    /\ UNCHANGED outsideSpawner

\* The attempt with the registry writable and the executable "daily" on the
\* PATH (every spawn succeeds) or not (none does).
TriggerAutoSummarize(daily_on_path) ==
    AutoSpawn(IF daily_on_path THEN Paths ELSE {}, Paths)

\* The transcripts at the start: one of them of any kind, the others
\* standard units (modified 40 minutes ago, with a user message).
\* The archives present before the first pass: none, or one that carries a
\* transcript_path line.
ArchivesAtStart ==
    {{}} \cup
    {{WithTranscriptPath(to_markdown("notes", 0, file_stem[p], "."), p)}
        : p \in {<<"/p/a.jsonl">>, <<"/p/12", "30.jsonl">>}}

InitFilter ==
    /\ files = [i \in {} |-> 0]
    /\ logs = {}
    /\ host = [pid \in AutoPids |-> NoProcess]
    /\ now = MaxNow
    /\ ret = NoResult
    /\ wr = NoSave
    /\ \E odd \in Paths, kind \in UnitKinds(LocalSecs(MaxNow)) :
          transcripts = [p \in Paths |->
                           IF p = odd THEN kind ELSE StandardUnit(LocalSecs(MaxNow))]
    /\ sessions \in ArchivesAtStart
    /\ NoShowRuns

NextFilter ==
    \/ \E daily_on_path \in BOOLEAN : TriggerAutoSummarize(daily_on_path)
    \/ Return

SpecFilter == InitFilter /\ [][NextFilter]_vars

(* ------- the job's side: summarize --foreground --job-id, digest ------- *)
\* summarize::run in foreground mode for the job id: run_summarization
\* (parse, summarize, archive.save) and then the self-report.  ok: the
\* summarization succeeded.
JobSummarizes(id, ok) ==
    /\ ret = NoResult
    /\ id \in DOMAIN files
    /\ from_str(files[id]).ok
    /\ from_str(files[id]).val.status = Running
    /\ host[from_str(files[id]).val.pid] = "live"
    /\ LET p == from_str(files[id]).val.transcript_path
       IN  IF ok
           THEN /\ sessions' = sessions \cup
                                  {to_markdown(file_stem[p], now, file_stem[p], ".")}
                /\ files' = mark_completed(files, id, now).dir
           ELSE /\ sessions' = sessions
                /\ files' = mark_failed(files, id, "Failed to summarize session",
                                        now).dir
    /\ UNCHANGED <<logs, host, now, ret, wr, transcripts, pgrp>>
    /\ UNCHANGED outsideSpawner

\* digest::run in foreground mode for the date of the sessions: the daily
\* summary is generated and saved, then the session files are deleted.
\* generated: update_daily_summary succeeded.
Digest(generated) ==
    /\ ret = NoResult
    /\ sessions # {}
    /\ sessions' = IF generated THEN {} ELSE sessions
    /\ UNCHANGED <<files, logs, host, now, ret, wr, transcripts, pgrp>>
    /\ UNCHANGED outsideSpawner

InitSummarize ==
    /\ files = [i \in {} |-> 0]
    /\ logs = {}
    /\ host = [pid \in AutoPids |-> NoProcess]
    /\ now = MaxNow
    /\ ret = NoResult
    /\ wr = NoSave
    /\ transcripts = [p \in Paths |-> StandardUnit(LocalSecs(MaxNow))]
    /\ sessions \in ArchivesAtStart
    /\ NoShowRuns

NextSummarize ==
    \/ \E daily_on_path \in BOOLEAN : TriggerAutoSummarize(daily_on_path)
    \/ \E p \in Paths, ok \in BOOLEAN : JobSummarizes(JobIdOf(p), ok)
    \/ \E generated \in BOOLEAN : Digest(generated)
    \/ Return

SpecSummarize == InitSummarize /\ [][NextSummarize]_vars

(* ------ the two spawners and the process groups (show.rs, hooks) ------- *)
\* The job the session-end hook launches: its id, the pid of its child, its
\* task name (generate_task_name) and the transcript of the hook input.
HookJobId == <<"proj-120000", "hook">>
HookPid == 5005
HookTask == <<"proj", "120000">>

\* The hook that registers its job whether or not the spawn gave a child.
session_end_registers_unspawned(dir, logfiles, h, grp, spawned, registered, t) ==
    [dir |-> register(dir, HookJobId, HookPid, HookTask, <<"/p/a.jsonl">>, t).dir,
     logs |-> logfiles \cup {HookJobId},
     host |-> IF spawned THEN [h EXCEPT ![HookPid] = "live"] ELSE h,
     pgrp |-> IF spawned THEN grp \cup {HookPid} ELSE grp]

\* hooks::session_end::handle with the hook enabled and its input read: the
\* log file is created, the process spawned (Command::spawn with the
\* default process group: the child stays in the group of the hook) and, if
\* that succeeded, registered.
session_end_handle(dir, logfiles, h, grp, spawned, registered, t) ==
    [dir |-> IF spawned /\ registered
             THEN register(dir, HookJobId, HookPid, HookTask, <<"/p/a.jsonl">>, t).dir
             ELSE dir,
     logs |-> logfiles \cup {HookJobId},
     host |-> IF spawned THEN [h EXCEPT ![HookPid] = "live"] ELSE h,
     pgrp |-> IF spawned THEN grp \cup {HookPid} ELSE grp]

\* The session-end hook runs.  enable_session_end: the hook is enabled in
\* the configuration.
SessionEnd(enable_session_end, spawned, registered) ==
    /\ ret = NoResult
    /\ HookJobId \notin DOMAIN files
    /\ HookJobId \notin logs
    /\ host[HookPid] = NoProcess
    /\ \E r \in {IF enable_session_end
                 THEN session_end_handle(files, logs, host, pgrp, spawned,
                                         registered, now)
                 ELSE [dir |-> files, logs |-> logs, host |-> host, pgrp |-> pgrp]} :
          /\ files' = r.dir
          /\ logs' = r.logs
          /\ host' = r.host
          /\ pgrp' = r.pgrp
    /\ ret' = Result("session_end", HookJobId,
                     [enable_session_end |-> enable_session_end,
                      spawned |-> spawned, registered |-> registered], TRUE, 0)
    /\ UNCHANGED <<now, wr, transcripts, sessions>>
    /\ UNCHANGED outsideSpawner

\* The controllers have exited and a termination signal is delivered to
\* their process group (the terminal hangs up, or Ctrl-C): it reaches the
\* live processes that are still in that group.  val: the pids reached.
GroupSignalled ==
    /\ ret = NoResult
    /\ \E pid \in DOMAIN host : host[pid] = "live"
    /\ LET reached == {pid \in pgrp : host[pid] = "live"}
       IN  /\ host' = [pid \in DOMAIN host |->
                         IF pid \in reached THEN NoProcess ELSE host[pid]]
           /\ pgrp' = pgrp \ reached
           /\ ret' = Result("killpg", "", 0, TRUE, reached)
    /\ UNCHANGED <<files, logs, now, wr, transcripts, sessions>>
    /\ UNCHANGED outsideSpawner

InitSpawn ==
    /\ files = [i \in {} |-> 0]
    /\ logs = {}
    /\ host = [pid \in AutoPids \cup {HookPid} |-> NoProcess]
    /\ now = MaxNow
    /\ ret = NoResult
    /\ wr = NoSave
    /\ transcripts = [p \in Paths |-> StandardUnit(LocalSecs(MaxNow))]
    /\ sessions = {}
    /\ NoShowRuns

\* The outcomes of a batch: every unit succeeds, or one unit fails, or (for
\* the spawns) every unit fails.
AllOrAllButOne == {Paths} \cup {Paths \ {p} : p \in Paths}

NextSpawn ==
    \/ \E spawn_ok \in AllOrAllButOne \cup {{}}, register_ok \in AllOrAllButOne :
          AutoSpawn(spawn_ok, register_ok)
    \/ \E enable_session_end \in BOOLEAN, spawned \in BOOLEAN, registered \in BOOLEAN :
          SessionEnd(enable_session_end, spawned, registered)
    \/ GroupSignalled
    \/ Return

SpecSpawn == InitSpawn /\ [][NextSpawn]_vars

(* ------------- job ids: generate_job_id, sanitize_name, rand_id -------- *)
\* The ids generated in one run.
MaxIssued == 2
\* The seconds the clock passes through after the first.
MaxSec == 1

\* A second in nanoseconds (Duration::subsec_nanos is below it).
NanosPerSec == 1000000000
\* A u32 as two 16-bit limbs <<high, low>>.
Limb == 65536

\* The low 32 bits of the nanoseconds since the epoch at the start of the
\* seconds 1762000000 (0x1e3d0000) and 1762000001 (0x59d7ca00).
StartWords == {<<7741, 0>>, <<22999, 51712>>}

\* The time that passes between two readings of the clock, in nanoseconds:
\* a microsecond, a quarter of a millisecond, a millisecond.
Steps == {1000, 252803, 1048576}

\* Characters are their code points.
Dash == 45
\* Task names: "b", "a", "A_" and "auto-x".
TaskNames == {<<98>>, <<97>>, <<65, 95>>, <<97, 117, 116, 111, 45, 120>>}

\* char::is_alphanumeric, for ASCII and for the other characters of the
\* names considered: U+00C9 and U+00E9 (E acute), U+0130 (capital I with
\* dot above) and U+4E2D (a CJK letter) are alphanumeric, U+0307 (the
\* combining dot above) is not.
is_alphanumeric(c) ==
    \/ c \in 48..57
    \/ c \in 65..90
    \/ c \in 97..122
    \/ c \in {201, 233, 304, 20013}

\* char::to_lowercase: the characters a character becomes.  U+0130 becomes
\* two, "i" and U+0307.
to_lowercase(c) ==
    IF c \in 65..90 THEN <<c + 32>>
    ELSE IF c = 201 THEN <<233>>
    ELSE IF c = 304 THEN <<105, 775>>
    ELSE <<c>>

\* str::to_lowercase
RECURSIVE str_to_lowercase(_)
str_to_lowercase(s) ==
    IF s = <<>> THEN <<>> ELSE to_lowercase(Head(s)) \o str_to_lowercase(Tail(s))

\* sanitize_name without take(20).
sanitize_name_untruncated(name) ==
    str_to_lowercase([k \in 1..Len(name) |->
                        IF is_alphanumeric(name[k]) \/ name[k] = Dash
                        THEN name[k] ELSE Dash])

\* fn sanitize_name(name): the first 20 characters, every character that is
\* neither alphanumeric nor '-' replaced by '-', in lower case.
sanitize_name(name) ==
    LET taken == SubSeq(name, 1, IF Len(name) < 20 THEN Len(name) ELSE 20)
        mapped == [k \in 1..Len(taken) |->
                     IF is_alphanumeric(taken[k]) \/ taken[k] = Dash
                     THEN taken[k] ELSE Dash]
    IN  str_to_lowercase(mapped)

\* The longest name considered.
MaxNameLen == 21

\* The characters of the names considered: "A", "a", "7", "-", "_", " ",
\* "!", U+00C9, U+0130, U+4E2D.
NameChars == {65, 97, 55, 45, 95, 32, 33, 201, 304, 20013}

\* The names of tests::test_sanitize_name.
TestNames == {<<109, 121, 45, 112, 114, 111, 106, 101, 99, 116>>,
              <<77, 121, 32, 80, 114, 111, 106, 101, 99, 116, 33>>,
              <<118, 101, 114, 121, 45, 108, 111, 110, 103, 45, 112, 114, 111, 106, 101, 99, 116, 45, 110, 97, 109, 101, 45, 116, 104, 97, 116, 45, 101, 120, 99, 101, 101, 100, 115, 45, 108, 105, 109, 105, 116>>}

\* The names considered: the tested ones, and two characters in turn up to
\* MaxNameLen.
Names ==
    TestNames \cup
    {[k \in 1..n |-> IF k % 2 = 1 THEN c ELSE d] : c \in NameChars, d \in NameChars,
                                                   n \in 0..MaxNameLen}

\* A task name is sanitized.
SanitizeName(name) ==
    /\ ret = NoResult
    /\ ret' = Result("sanitize_name", "", name, TRUE, sanitize_name(name))
    /\ UNCHANGED <<files, logs, host, now, wr, transcripts, sessions, config, tod,
                   shows, grants, pgrp, issued, nanos, logtext, follow, tasks>>

NextSanitize ==
    \/ \E name \in Names : SanitizeName(name)
    \/ Return

SpecSanitize == Init /\ [][NextSanitize]_vars

\* a ^ b on the low `bits` bits.
RECURSIVE Xor(_, _, _)
Xor(a, b, bits) ==
    IF bits = 0 THEN 0
    ELSE (((a % 2) + (b % 2)) % 2) + 2 * Xor(a \div 2, b \div 2, bits - 1)

\* Wrapping addition of d (below 2^31) to a u32.
AddWord(w, d) ==
    LET low == w[2] + (d % Limb)
        high == w[1] + (d \div Limb) + (low \div Limb)
    IN  <<high % Limb, low % Limb>>

\* fn rand_id(): (duration.as_nanos() as u32) ^ duration.subsec_nanos().
\* word: the nanoseconds since the epoch truncated to 32 bits.
rand_id(word, subsec) ==
    <<Xor(word[1], subsec \div Limb, 16), Xor(word[2], subsec % Limb, 16)>>

\* One lower-case hexadecimal digit.
HexDigit(d) == IF d < 10 THEN 48 + d ELSE 87 + d

\* format!("{:06x}", random): at least six digits, no more leading zeros
\* than that.
LowerHex06(w) ==
    LET Four(x) == <<HexDigit(x \div 4096), HexDigit((x \div 256) % 16),
                     HexDigit((x \div 16) % 16), HexDigit(x % 16)>>
        eight == Four(w[1]) \o Four(w[2])
    IN  IF w[1] < 256 THEN SubSeq(eight, 3, 8)
        ELSE IF w[1] < 4096 THEN SubSeq(eight, 2, 8)
        ELSE eight

\* JobManager::generate_job_id(task_name) at the clock reading (sec, word,
\* subsec): the timestamp "%Y%m%d-%H%M%S" is a fixed-width field, one
\* character here, whose order is that of the second.
generate_job_id(task_name, clock) ==
    <<clock.sec>> \o <<Dash>> \o sanitize_name(task_name) \o <<Dash>>
       \o LowerHex06(rand_id(clock.word, clock.subsec))

\* The order of strings (str::cmp).
RECURSIVE LexLess(_, _)
LexLess(a, b) ==
    IF b = <<>> THEN FALSE
    ELSE IF a = <<>> THEN TRUE
    ELSE IF Head(a) # Head(b) THEN Head(a) < Head(b)
    ELSE LexLess(Tail(a), Tail(b))

\* A process generates an id: d nanoseconds after the last reading of the
\* clock, within the same second.
GenerateJobId(task_name, d) ==
    /\ Len(issued) < MaxIssued
    /\ nanos.subsec + d < NanosPerSec
    /\ nanos' = [nanos EXCEPT !.subsec = @ + d, !.word = AddWord(@, d)]
    /\ issued' = Append(issued, [id |-> generate_job_id(task_name, nanos'),
                                 sec |-> nanos.sec,
                                 task_name |-> task_name])
    /\ UNCHANGED <<files, logs, host, now, ret, wr, transcripts, sessions,
                   config, tod, shows, grants, pgrp, tasks, logtext, follow>>

\* The clock reaches the next second.
SecondPasses ==
    /\ nanos.sec < MaxSec
    /\ nanos' = [sec |-> nanos.sec + 1,
                 word |-> AddWord(nanos.word, NanosPerSec - nanos.subsec),
                 subsec |-> 0]
    /\ UNCHANGED <<files, logs, host, now, ret, wr, transcripts, sessions,
                   config, tod, shows, grants, pgrp, tasks, issued, logtext, follow>>

InitIds ==
    /\ files = [i \in {} |-> 0]
    /\ logs = {}
    /\ host = [p \in Pids |-> NoProcess]
    /\ now = 0
    /\ ret = NoResult
    /\ wr = NoSave
    /\ transcripts = [p \in {} |-> 0]
    /\ sessions = {}
    /\ config = DefaultConfig
    /\ tod = 600
    /\ shows = [i \in Invocations |-> [pc |-> "idle", config |-> DefaultConfig]]
    /\ grants = [d \in 0..MaxNow |-> 0]
    /\ pgrp = {}
    /\ issued = <<>>
    /\ \E word \in StartWords : nanos = [sec |-> 0, word |-> word, subsec |-> 0]
    /\ tasks = NoTasks
    /\ logtext = [i \in {} |-> 0]
    /\ follow = NoFollow

NextIds ==
    \/ \E task_name \in TaskNames, d \in Steps : GenerateJobId(task_name, d)
    \/ SecondPasses

SpecIds == InitIds /\ [][NextIds]_vars

(* ------------- LogSink: read_log, truncate_log_if_needed --------------- *)
\* The lines a log holds at most.
MaxLines == 3

\* Maximum log file size in bytes (1MB).
MAX_LOG_SIZE == 1024 * 1024

\* The text of a file: its lines (each with its length in bytes, the line
\* terminator not counted) and whether the last line ends with "\n".  The
\* empty string has no line.
EmptyText == [lines |-> <<>>, nl |-> FALSE]
LogLine(k, len) == [text |-> <<"line", k>>, len |-> len]

\* The lengths of the lines of the logs considered: an empty line, a short
\* one, and lines of more than half and more than the whole of the cap.
LineLens == {0, 10, 600000, 1100000}

\* The logs considered: up to MaxLines lines, the last one terminated or
\* not.
LogTexts ==
    {EmptyText} \cup
    UNION {{[lines |-> [k \in 1..n |-> LogLine(k, lens[k])], nl |-> nl] :
               lens \in [1..n -> LineLens], nl \in BOOLEAN} : n \in 1..MaxLines}

\* metadata.len(): the size in bytes.
RECURSIVE SumLens(_)
SumLens(ls) == IF ls = <<>> THEN 0 ELSE Head(ls).len + SumLens(Tail(ls))
Size(text) ==
    IF text.lines = <<>> THEN 0
    ELSE SumLens(text.lines) + (Len(text.lines) - 1) + (IF text.nl THEN 1 ELSE 0)

\* str::lines().collect().
str_lines(text) == text.lines

\* [&str]::join("\n"): the text of the lines with "\n" between them.  A
\* last line that is empty leaves the text ending in the separator.
join(ls) ==
    IF ls = <<>> THEN EmptyText
    ELSE IF ls[Len(ls)].len > 0 THEN [lines |-> ls, nl |-> FALSE]
    ELSE IF Len(ls) = 1 THEN EmptyText
    ELSE [lines |-> SubSeq(ls, 1, Len(ls) - 1), nl |-> TRUE]

\* read_log that returns the first lines instead of the last.
read_log_head(logfiles, texts, job_id, tail_lines) ==
    IF job_id \notin logfiles THEN [ok |-> FALSE, val |-> "Failed to read log file"]
    ELSE IF tail_lines = None THEN [ok |-> TRUE, val |-> texts[job_id]]
    ELSE LET lines == str_lines(texts[job_id])
             n == tail_lines[1]
         IN  [ok |-> TRUE,
              val |-> join(SubSeq(lines, 1, IF n < Len(lines) THEN n ELSE Len(lines)))]

\* JobManager::read_log(job_id, tail_lines)
read_log(logfiles, texts, job_id, tail_lines) ==
    IF job_id \notin logfiles THEN [ok |-> FALSE, val |-> "Failed to read log file"]
    ELSE IF tail_lines = None THEN [ok |-> TRUE, val |-> texts[job_id]]
    ELSE LET lines == str_lines(texts[job_id])
             n == tail_lines[1]
             start == IF Len(lines) > n THEN Len(lines) - n ELSE 0
         IN  [ok |-> TRUE, val |-> join(SubSeq(lines, start + 1, Len(lines)))]

\* The line "[... log truncated, showing last K lines ...]" (K below 10).
MarkerLine(K) == [text |-> <<"[... log truncated, showing last K lines ...]", K>>,
                  len |-> 45]

\* JobManager::truncate_log_if_needed(job_id): the text of the log after it.
truncate_log_if_needed(logfiles, texts, job_id) ==
    IF job_id \notin logfiles THEN texts
    ELSE IF Size(texts[job_id]) > MAX_LOG_SIZE
    THEN LET lines == str_lines(texts[job_id])
             keep_from == Len(lines) \div 2
             kept == join(SubSeq(lines, keep_from + 1, Len(lines)))
         IN  [texts EXCEPT ![job_id] =
                 [lines |-> <<MarkerLine(Len(lines) - keep_from)>> \o kept.lines,
                  nl |-> kept.nl]]
    ELSE texts

\* The job whose log is read.
LogJob == "j1"

ReadLog(tail_lines) ==
    /\ ret = NoResult
    /\ \E r \in {read_log(logs, logtext, LogJob, tail_lines)} :
          ret' = Result("read_log", LogJob, tail_lines, r.ok, r.val)
    /\ UNCHANGED <<files, logs, host, now, wr, transcripts, sessions, config, tod,
                   shows, grants, pgrp, tasks, issued, nanos, logtext, follow>>

TruncateLogIfNeeded ==
    /\ ret = NoResult
    /\ logtext' = truncate_log_if_needed(logs, logtext, LogJob)
    /\ ret' = Result("truncate_log_if_needed", LogJob, 0, TRUE, 0)
    /\ UNCHANGED <<files, logs, host, now, wr, transcripts, sessions, config, tod,
                   shows, grants, pgrp, tasks, issued, nanos, follow>>

\* A log of any content, or no log file.
InitLog ==
    /\ files = [i \in {} |-> 0]
    /\ host = [p \in Pids |-> NoProcess]
    /\ now = 0
    /\ ret = NoResult
    /\ wr = NoSave
    /\ transcripts = [p \in {} |-> 0]
    /\ sessions = {}
    /\ config = DefaultConfig
    /\ tod = 600
    /\ shows = [i \in Invocations |-> [pc |-> "idle", config |-> DefaultConfig]]
    /\ grants = [d \in 0..MaxNow |-> 0]
    /\ pgrp = {}
    /\ issued = <<>>
    /\ nanos = [sec |-> 0, word |-> <<0, 0>>, subsec |-> 0]
    /\ tasks = NoTasks
    /\ follow = NoFollow
    /\ \/ /\ logs = {}
          /\ logtext = [i \in {} |-> 0]
       \/ /\ logs = {LogJob}
          /\ \E text \in LogTexts : logtext = [i \in {LogJob} |-> text]

NextLog ==
    \/ \E tail_lines \in {None} \cup {Some(n) : n \in 0..(MaxLines + 1)} :
          ReadLog(tail_lines)
    \/ TruncateLogIfNeeded
    \/ Return

SpecLog == InitLog /\ [][NextLog]_vars

(* ----------------- jobs log --follow (jobs::follow_log) ----------------- *)
\* The bytes of a line the followed job writes, its "\n" not counted.
WrittenLineLen == 9

\* The job's process writes a line to its log (the stdout and stderr the
\* spawner redirected to it).
JobWrites ==
    /\ LogJob \in logs
    /\ host[PidOf[LogJob]] = "live"
    /\ Len(logtext[LogJob].lines) < MaxLines
    /\ logtext' = [logtext EXCEPT ![LogJob] =
                      [lines |-> Append(@.lines, LogLine(Len(@.lines) + 1, WrittenLineLen)),
                       nl |-> TRUE]]
    /\ UNCHANGED <<files, logs, host, now, ret, wr, transcripts, sessions, config,
                   tod, shows, grants, pgrp, tasks, issued, nanos, follow>>

\* jobs::log(job_id, tail, follow = true): the record loads and is Running,
\* so follow_log starts with last_pos = 0.
FollowStarts ==
    /\ follow.pc = "idle"
    /\ load_job(files, LogJob).ok
    /\ load_job(files, LogJob).val.status = Running
    /\ follow' = [NoFollow EXCEPT !.pc = "polling", !.id = LogJob]
    /\ UNCHANGED <<files, logs, host, now, ret, wr, transcripts, sessions, config,
                   tod, shows, grants, pgrp, tasks, issued, nanos, logtext>>

\* The head of the loop of follow_log: the record is loaded; when it loads
\* and is not Running, the rest of the log from last_pos is printed and the
\* loop is left.  Otherwise the log is opened and its length taken; when it
\* is above last_pos the read follows, else the loop sleeps and polls again.
FollowPolls ==
    /\ follow.pc = "polling"
    /\ LET job == load_job(files, follow.id)
           file_len == Size(logtext[follow.id])
       IN  IF job.ok /\ job.val.status # Running
           THEN follow' = [follow EXCEPT
                              !.pc = "done",
                              !.file_len = IF follow.id \in logs THEN file_len ELSE @,
                              !.out = IF follow.id \in logs /\ file_len > follow.last_pos
                                      THEN Append(@, <<follow.last_pos, file_len>>)
                                      ELSE @]
           ELSE IF follow.id \in logs /\ file_len > follow.last_pos
           THEN follow' = [follow EXCEPT !.pc = "reading", !.file_len = file_len]
           ELSE follow' = follow
    /\ UNCHANGED <<files, logs, host, now, ret, wr, transcripts, sessions, config,
                   tod, shows, grants, pgrp, tasks, issued, nanos, logtext>>

\* reader.seek(last_pos); read_to_string(&mut buf); print!(buf);
\* last_pos = file_len: the open file is read from last_pos to its end as
\* it is now, and the offset becomes the length taken before the read.
FollowReads ==
    /\ follow.pc = "reading"
    /\ follow' = [follow EXCEPT
                     !.pc = "polling",
                     !.out = Append(@, <<follow.last_pos, Size(logtext[follow.id])>>),
                     !.last_pos = follow.file_len]
    /\ UNCHANGED <<files, logs, host, now, ret, wr, transcripts, sessions, config,
                   tod, shows, grants, pgrp, tasks, issued, nanos, logtext>>

\* The followed job has been spawned and registered a day ago, runs, and
\* has written nothing yet.
InitFollow ==
    /\ files = save_job([i \in {} |-> 0],
                        JobInfo(LogJob, PidOf[LogJob], UnitOf[LogJob].task_name,
                                UnitOf[LogJob].transcript_path, 0, None, Running))
    /\ logs = {LogJob}
    /\ host = [p \in Pids |-> IF p = PidOf[LogJob] THEN "live" ELSE NoProcess]
    /\ now = 1
    /\ ret = NoResult
    /\ wr = NoSave
    /\ transcripts = [p \in {} |-> 0]
    /\ sessions = {}
    /\ config = DefaultConfig
    /\ tod = 600
    /\ shows = [i \in Invocations |-> [pc |-> "idle", config |-> DefaultConfig]]
    /\ grants = [d \in 0..MaxNow |-> 0]
    /\ pgrp = {}
    /\ issued = <<>>
    /\ nanos = [sec |-> 0, word |-> <<0, 0>>, subsec |-> 0]
    /\ tasks = NoTasks
    /\ logtext = [i \in {LogJob} |-> EmptyText]
    /\ follow = NoFollow

NextFollow ==
    \/ JobWrites
    \/ FollowStarts
    \/ FollowPolls
    \/ FollowReads
    \/ MarkCompleted(LogJob)
    \/ \E error \in SelfReportErrors : MarkFailed(LogJob, error)
    \/ Kill(LogJob, TRUE)
    \/ List(FALSE, TRUE)
    \/ Cleanup(0, TRUE)
    \/ ProcessExit(PidOf[LogJob], FALSE)
    \/ Return

\* The loop of follow_log runs until it breaks: a poll that can do
\* something is eventually done.
SpecFollow == InitFollow /\ [][NextFollow]_vars /\ WF_vars(FollowPolls \/ FollowReads)

(* ------------------ jobs log <id>, jobs kill <id> ----------------------- *)
\* What a command prints last and the error it exits with: the message of
\* the anyhow context on top and of the error below it, "none" when the
\* command returns Ok(()).
Outcome(printed, error, caused_by) ==
    [printed |-> printed, error |-> error, caused_by |-> caused_by]

\* jobs::log(job_id, None, false): load_job(..).context("Job not found")?,
\* then the one-shot read of the log.
jobs_log(dir, logfiles, texts, job_id) ==
    LET job == load_job(dir, job_id)
        log == read_log(logfiles, [i \in logfiles |-> IF i \in DOMAIN texts THEN texts[i]
                                                      ELSE EmptyText], job_id, None)
    IN  IF ~job.ok THEN Outcome("", "Job not found", job.val)
        ELSE IF ~log.ok THEN Outcome("(log file not found)", "none", "none")
        ELSE IF log.val = EmptyText THEN Outcome("(no log output)", "none", "none")
        ELSE Outcome("content", "none", "none")

\* jobs::kill(job_id): load_job(..).context("Job not found")?, the warning
\* for a job that is not running, else manager.kill(job_id)?.
jobs_kill(dir, h, job_id, perm, t) ==
    LET job == load_job(dir, job_id)
        r == kill(dir, h, job_id, perm, t)
    IN  IF ~job.ok THEN [dir |-> dir, val |-> Outcome("", "Job not found", job.val)]
        ELSE IF job.val.status # Running
        THEN [dir |-> dir, val |-> Outcome("Warning: Job is not running", "none", "none")]
        ELSE IF ~r.ok THEN [dir |-> dir, val |-> Outcome("", r.val, "none")]
        ELSE IF r.val THEN [dir |-> r.dir, val |-> Outcome("Success: Killed job", "none", "none")]
        ELSE [dir |-> r.dir, val |-> Outcome("Error: Failed to kill job", "none", "none")]

JobsLog(id) ==
    /\ ret = NoResult
    /\ \E r \in {jobs_log(files, logs, logtext, id)} :
          ret' = Result("jobs log", id, 0, r.error = "none", r)
    /\ UNCHANGED <<files, logs, host, now, wr>>
    /\ UNCHANGED outsideStore

JobsKill(id, perm) ==
    /\ ret = NoResult
    /\ \E r \in {jobs_kill(files, host, id, perm, now)} :
          /\ files' = r.dir
          /\ ret' = Result("jobs kill", id, 0, r.val.error = "none", r.val)
    /\ UNCHANGED <<logs, host, now, wr>>
    /\ UNCHANGED outsideStore

\* The commands and the calls of the registry, by id, while spawners
\* register jobs and jobs report their completion.
NextCli ==
    \/ \E id \in JobIds : RegisterBegins(id)
    \/ \E id \in JobIds : MarkCompletedBegins(id)
    \/ SaveEnds
    \/ \E id \in JobIds : ConcurrentLoad(id)
    \/ \E id \in JobIds : MarkCompleted(id)
    \/ \E id \in JobIds, error \in SelfReportErrors : MarkFailed(id, error)
    \/ \E id \in JobIds : Kill(id, TRUE)
    \/ \E id \in JobIds : JobsLog(id)
    \/ \E id \in JobIds, perm \in BOOLEAN : JobsKill(id, perm)
    \/ Return

SpecCli == Init /\ [][NextCli]_vars

(* ------- list and cleanup when the directory or a record fails --------- *)
\* The entries of the directory whose fs::read_to_string succeeds.
Readable(dir, unreadable) == [i \in (DOMAIN dir) \ unreadable |-> dir[i]]

\* list that gives up at a record it cannot read or parse.
list_read_dir_strict(dir, order, h, perm, include_completed, t, dir_ok, unreadable) ==
    IF ~dir_ok \/ unreadable \cap DOMAIN dir # {} \/ \E i \in DOMAIN dir : ~from_str(dir[i]).ok
    THEN Err(dir, "read_dir")
    ELSE list(dir, order, h, perm, include_completed, t)

\* fn list(&self, include_completed) with its failures: fs::read_dir(..)?
\* is the only `?`; an entry whose read_to_string or from_str fails is
\* passed over.  order: the order in which the readable entries are met.
list_read_dir(dir, order, h, perm, include_completed, t, dir_ok, unreadable) ==
    IF ~dir_ok THEN Err(dir, "read_dir")
    ELSE LET r == list(Readable(dir, unreadable), order, h, perm, include_completed, t)
         IN  Ok([i \in DOMAIN dir |-> IF i \in unreadable THEN dir[i] ELSE r.dir[i]], r.val)

\* fn cleanup(&self, keep_days) with its failures, in the same way.
cleanup_read_dir(dir, logfiles, keep_days, t, dir_ok, unreadable) ==
    IF ~dir_ok THEN Err(dir, "read_dir") @@ [logs |-> logfiles]
    ELSE LET r == cleanup(Readable(dir, unreadable), logfiles, keep_days, t, TRUE)
             left == (DOMAIN r.dir) \cup (unreadable \cap DOMAIN dir)
         IN  [ok |-> TRUE, dir |-> [i \in left |-> dir[i]], logs |-> r.logs, val |-> r.val]

ListReadDir(include_completed, dir_ok, unreadable) ==
    /\ ret = NoResult
    /\ \E order \in ReadDirOrders(Readable(files, unreadable)) :
          \E r \in {list_read_dir(files, order, host, TRUE, include_completed, now,
                                  dir_ok, unreadable)} :
              /\ files' = r.dir
              /\ ret' = Result("list", "",
                               [include_completed |-> include_completed,
                                dir_ok |-> dir_ok, unreadable |-> unreadable],
                               r.ok, r.val)
    /\ UNCHANGED <<logs, host, now, wr>>
    /\ UNCHANGED outsideStore

CleanupReadDir(keep_days, dir_ok, unreadable) ==
    /\ ret = NoResult
    /\ \E r \in {cleanup_read_dir(files, logs, keep_days, now, dir_ok, unreadable)} :
          /\ files' = r.dir
          /\ logs' = r.logs
          /\ ret' = Result("cleanup", "",
                           [keep_days |-> keep_days, dir_ok |-> dir_ok,
                            unreadable |-> unreadable],
                           r.ok, r.val)
    /\ UNCHANGED <<host, now, wr>>
    /\ UNCHANGED outsideStore

\* A job's process ends while records are being saved.
JobExits(id) ==
    /\ ret = NoResult
    /\ host[PidOf[id]] = "live"
    /\ host' = [host EXCEPT ![PidOf[id]] = NoProcess]
    /\ UNCHANGED <<files, logs, now, ret, wr>>
    /\ UNCHANGED outsideStore

\* A day passes.
DayPasses ==
    /\ ret = NoResult
    /\ now < MaxNow
    /\ now' = now + 1
    /\ UNCHANGED <<files, logs, host, ret, wr>>
    /\ UNCHANGED outsideStore

\* The batch operations over a directory in which records are being
\* written and some cannot be read.
NextBatch ==
    \/ \E id \in JobIds : RegisterBegins(id)
    \/ \E id \in JobIds : MarkCompletedBegins(id)
    \/ SaveEnds
    \/ \E id \in JobIds : JobExits(id)
    \/ DayPasses
    \/ \E include_completed \in BOOLEAN, dir_ok \in BOOLEAN, unreadable \in SUBSET JobIds :
          ListReadDir(include_completed, dir_ok, unreadable)
    \/ \E dir_ok \in BOOLEAN, unreadable \in SUBSET JobIds :
          CleanupReadDir(0, dir_ok, unreadable)
    \/ Return

SpecBatch == Init /\ [][NextBatch]_vars

(* ---- one job among its spawner, a reconciling list and a kill --------- *)
\* The job the processes work on.
RacedJob == "j1"

\* What the steps of these processes leave alone.
outsideRace == <<now, ret, wr, transcripts, sessions, config, tod, shows, grants,
                 pgrp, issued, nanos, logtext, follow>>

\* cmd.spawn() of the spawner (show.rs 191, session_end.rs 77): the child
\* runs, with --job-id, before its record is written.
SpawnerSpawns ==
    /\ tasks.spawner = "idle"
    /\ host[PidOf[RacedJob]] = NoProcess
    /\ host' = [host EXCEPT ![PidOf[RacedJob]] = "live"]
    /\ logs' = logs \cup {RacedJob}
    /\ tasks' = [tasks EXCEPT !.spawner = "spawned", !.job.pc = "running"]
    /\ UNCHANGED files
    /\ UNCHANGED outsideRace

\* job_manager.register(&job_id, child.id(), ..) after the spawn.
SpawnerRegisters ==
    /\ tasks.spawner = "spawned"
    /\ files' = register(files, RacedJob, PidOf[RacedJob], UnitOf[RacedJob].task_name,
                         UnitOf[RacedJob].transcript_path, now).dir
    /\ tasks' = [tasks EXCEPT !.spawner = "done"]
    /\ UNCHANGED <<logs, host>>
    /\ UNCHANGED outsideRace

\* run_summarization(..).await of the job returns Ok or Err.
JobSummarized(ok) ==
    /\ tasks.job.pc = "running"
    /\ tasks' = [tasks EXCEPT !.job.pc = "summarized", !.job.ok = ok]
    /\ UNCHANGED <<files, logs, host>>
    /\ UNCHANGED outsideRace

\* The self-report of summarize::run: mark_completed(id) or
\* mark_failed(id, &e.to_string()); an Err of either is a warning on stderr.
JobReports ==
    /\ tasks.job.pc = "summarized"
    /\ \E r \in {IF tasks.job.ok THEN mark_completed(files, RacedJob, now)
                 ELSE mark_failed(files, RacedJob, "Failed to summarize session", now)} :
          /\ files' = r.dir
          /\ tasks' = [tasks EXCEPT
                          !.job.pc = "reported",
                          !.job.saved = IF ~r.ok THEN "lost"
                                        ELSE IF tasks.job.ok THEN "Completed"
                                        ELSE "Failed"]
    /\ UNCHANGED <<logs, host>>
    /\ UNCHANGED outsideRace

\* summarize::run returns and the process exits.
JobReturns ==
    /\ tasks.job.pc = "reported"
    /\ host' = [host EXCEPT ![PidOf[RacedJob]] = NoProcess]
    /\ tasks' = [tasks EXCEPT !.job.pc = "exited"]
    /\ UNCHANGED <<files, logs>>
    /\ UNCHANGED outsideRace

\* The job's process ends without a report (a crash, a signal from
\* outside).
JobCrashes ==
    /\ tasks.job.pc \in {"running", "summarized"}
    /\ host' = [host EXCEPT ![PidOf[RacedJob]] = NoProcess]
    /\ tasks' = [tasks EXCEPT !.job.pc = "crashed"]
    /\ UNCHANGED <<files, logs>>
    /\ UNCHANGED outsideRace

\* list, for the entry of the job: fs::read_to_string and from_str.
ListReads ==
    /\ tasks.lister.pc = "idle"
    /\ load_job(files, RacedJob).ok
    /\ tasks' = [tasks EXCEPT !.lister = [pc |-> "read",
                                          info |-> Some(load_job(files, RacedJob).val)]]
    /\ UNCHANGED <<files, logs, host>>
    /\ UNCHANGED outsideRace

\* list, on: info.status == Running && !info.is_alive(), and the save_job of
\* the record as it was read, with the status set to Failed.
ListProbesAndSaves ==
    /\ tasks.lister.pc = "read"
    /\ LET info == tasks.lister.info[1]
       IN  files' = IF Reconciled(info, host, TRUE, now) # info
                    THEN save_job(files, Reconciled(info, host, TRUE, now))
                    ELSE files
    /\ tasks' = [tasks EXCEPT !.lister = [pc |-> "idle", info |-> None]]
    /\ UNCHANGED <<logs, host>>
    /\ UNCHANGED outsideRace

\* JobManager::kill: load_job and the test of the status it holds.
KillLoads ==
    /\ tasks.killer = "idle"
    /\ load_job(files, RacedJob).ok
    /\ load_job(files, RacedJob).val.status = Running
    /\ tasks' = [tasks EXCEPT !.killer = "loaded"]
    /\ UNCHANGED <<files, logs, host>>
    /\ UNCHANGED outsideRace

\* JobManager::kill, on: kill_process(info.pid), which ends a process that
\* runs, and mark_failed(job_id, "Killed by user") when the signal was sent.
KillSignalsAndMarks ==
    /\ tasks.killer = "loaded"
    /\ LET killed == kill_process(host, PidOf[RacedJob], TRUE)
       IN  /\ files' = IF killed THEN mark_failed(files, RacedJob, "Killed by user", now).dir
                       ELSE files
           /\ host' = IF killed THEN [host EXCEPT ![PidOf[RacedJob]] = NoProcess] ELSE host
           /\ tasks' = [tasks EXCEPT !.killer = "idle",
                                     !.job.pc = IF killed THEN "killed" ELSE @]
    /\ UNCHANGED logs
    /\ UNCHANGED outsideRace

NextRace ==
    \/ SpawnerSpawns
    \/ SpawnerRegisters
    \/ \E ok \in BOOLEAN : JobSummarized(ok)
    \/ JobReports
    \/ JobReturns
    \/ JobCrashes
    \/ ListReads
    \/ ListProbesAndSaves
    \/ KillLoads
    \/ KillSignalsAndMarks

SpecRace == Init /\ [][NextRace]_vars

(* ------------- digest in its steps, beside the jobs that archive -------- *)
\* What the steps of the digest leave alone.
outsideDigest == <<files, logs, host, now, ret, wr, transcripts, config, tod, shows,
                   grants, pgrp, issued, nanos, logtext, follow>>

\* engine.update_daily_summary(date), first part: manager.list_sessions(date)
\* and read_session of each: the sessions whose content goes into the
\* prompt.
DigestListsSessions ==
    /\ tasks.digest.pc = "idle"
    /\ sessions # {}
    /\ tasks' = [tasks EXCEPT !.digest = [pc |-> "listed", summary |-> sessions,
                                          saved |-> FALSE, deleted |-> {}]]
    /\ UNCHANGED sessions
    /\ UNCHANGED outsideDigest

\* update_daily_summary, second part, and summary.save(&config)?: the
\* summary is generated (invoke_claude, extract_json, from_str) and saved,
\* or one of the two fails and digest::run returns the error.
DigestGeneratesAndSaves(generated, saved) ==
    /\ tasks.digest.pc = "listed"
    /\ tasks' = [tasks EXCEPT !.digest.pc = IF generated /\ saved THEN "saved" ELSE "failed",
                              !.digest.saved = generated /\ saved]
    /\ UNCHANGED sessions
    /\ UNCHANGED outsideDigest

\* manager.delete_sessions(&target_date): list_sessions(date) again, and
\* fs::remove_file of every session file it names.
DigestDeletesSessions ==
    /\ tasks.digest.pc = "saved"
    /\ sessions' = {}
    /\ tasks' = [tasks EXCEPT !.digest.pc = "done", !.digest.deleted = sessions]
    /\ UNCHANGED outsideDigest

NextDigest ==
    \/ TriggerAutoSummarize(TRUE)
    \/ \E p \in Paths, ok \in BOOLEAN : JobSummarizes(JobIdOf(p), ok)
    \/ DigestListsSessions
    \/ \E generated \in BOOLEAN, saved \in BOOLEAN : DigestGeneratesAndSaves(generated, saved)
    \/ DigestDeletesSessions
    \/ Return

SpecDigest == InitSummarize /\ [][NextDigest]_vars

(* --------- the trigger gate of the dashboard command (show::run) ------- *)
\* The times of day the clock passes through: 05:00, 06:00 and 07:00.
Times == <<300, 360, 420>>

\* The texts auto_summarize_time holds: the default, and one that is not a
\* time of day.
TimeTexts == {"06:00", "6am"}

\* NaiveTime::parse_from_str(text, "%H:%M"), in minutes after midnight.
parse_from_str(text) ==
    IF text = "06:00"
    THEN [ok |-> TRUE, val |-> 360]
    ELSE [ok |-> FALSE, val |-> 0]

\* DateTime::to_rfc3339: the text of a local date and time.
to_rfc3339(date, time) == [text |-> "rfc3339", date |-> date, time |-> time]

\* A text that is not an RFC 3339 timestamp.
NotATimestamp == [text |-> "yesterday", date |-> 0, time |-> 0]

\* DateTime::parse_from_rfc3339.
parse_from_rfc3339(s) ==
    IF s.text = "rfc3339"
    THEN [ok |-> TRUE, val |-> [date |-> s.date, time |-> s.time]]
    ELSE [ok |-> FALSE, val |-> [date |-> 0, time |-> 0]]

\* The every-invocation policy.
should_trigger_on_show_switch_alone(cfg) ==
    cfg.auto_summarize_on_show

should_trigger_auto_summarize_on_show(cfg) ==
    cfg.auto_summarize_enabled /\ cfg.auto_summarize_on_show

\* The time-based policy, at the local date today and the local time
\* current_time.  Result<bool>: val is the boolean of an Ok.
should_trigger_whatever_the_last_check(cfg, today, current_time) ==
    IF ~cfg.auto_summarize_enabled
    THEN [ok |-> TRUE, val |-> FALSE]
    ELSE LET trigger_time == parse_from_str(cfg.auto_summarize_time)
         IN  IF ~trigger_time.ok
             THEN [ok |-> FALSE, val |-> FALSE]
             ELSE [ok |-> TRUE, val |-> current_time >= trigger_time.val]

should_trigger_auto_summarize(cfg, today, current_time) ==
    IF ~cfg.auto_summarize_enabled
    THEN [ok |-> TRUE, val |-> FALSE]
    ELSE LET trigger_time == parse_from_str(cfg.auto_summarize_time)
             last_check_str == cfg.last_auto_summarize_check
         IN  IF ~trigger_time.ok
             THEN [ok |-> FALSE, val |-> FALSE]
             ELSE IF current_time < trigger_time.val
             THEN [ok |-> TRUE, val |-> FALSE]
             ELSE IF /\ last_check_str # None
                     /\ parse_from_rfc3339(last_check_str[1]).ok
                     /\ parse_from_rfc3339(last_check_str[1]).val.date = today
                     /\ parse_from_rfc3339(last_check_str[1]).val.time
                            >= trigger_time.val
             THEN [ok |-> TRUE, val |-> FALSE]
             ELSE [ok |-> TRUE, val |-> TRUE]

\* The time-based policy was not consulted: the every-invocation policy
\* had already authorized the attempt.
NotCalled == [called |-> FALSE, ok |-> TRUE, val |-> FALSE]

\* The gate of show::run on a loaded configuration: the disjunction of the
\* two policies, the second evaluated only if the first declines.
Gate(cfg, today, current_time) ==
    LET on_show == should_trigger_auto_summarize_on_show(cfg)
        timed == should_trigger_auto_summarize(cfg, today, current_time)
    IN  [on_show |-> on_show,
         time_based |-> IF on_show THEN NotCalled
                        ELSE [called |-> TRUE, ok |-> timed.ok, val |-> timed.val],
         ok |-> on_show \/ timed.ok,
         should_trigger |-> on_show \/ (timed.ok /\ timed.val)]

\* show::run up to its decision: load_config, then the gate.  A gate error
\* ends the command; a declined attempt leaves nothing more to do here.
ShowLoads(i) ==
    /\ ret = NoResult
    /\ shows[i].pc = "idle"
    /\ \E g \in {Gate(config, now, tod)} :
          /\ shows' = [shows EXCEPT ![i] =
                          IF g.should_trigger
                          THEN [pc |-> "triggering", config |-> config]
                          ELSE @]
          /\ grants' = IF g.should_trigger /\ ~g.on_show
                       THEN [grants EXCEPT ![now] = IF @ = 0 THEN 1 ELSE 2]
                       ELSE grants
          /\ ret' = Result("gate", i, 0, g.ok, g)
    /\ UNCHANGED <<files, logs, host, now, wr, transcripts, sessions, config, tod,
                   pgrp, idsAndLogs>>

\* show::run after an authorizing gate: the auto-spawn attempt, then the
\* last check time is set in the loaded configuration and the whole
\* configuration is stored, unless the every-invocation policy is on.
ShowTriggers(i, daily_on_path) ==
    /\ ret = NoResult
    /\ shows[i].pc = "triggering"
    /\ \E order \in ReadDirOrders(transcripts) :
          \E r \in {trigger_auto_summarize(transcripts, order, sessions, files, logs,
                                           host, pgrp,
                                           IF daily_on_path THEN Paths ELSE {},
                                           Paths, now)} :
              /\ \A k \in 1..Len(r.found) : JobIdOf(r.found[k]) \notin DOMAIN files
              /\ files' = r.dir
              /\ logs' = r.logs
              /\ host' = r.host
              /\ pgrp' = r.pgrp
              /\ ret' = Result("show", i, daily_on_path, TRUE,
                               [found |-> r.found, spawned_count |-> r.spawned_count])
    /\ config' = IF should_trigger_auto_summarize_on_show(shows[i].config)
                 THEN config
                 ELSE [shows[i].config EXCEPT
                          !.last_auto_summarize_check = Some(to_rfc3339(now, tod))]
    /\ shows' = [shows EXCEPT ![i] = [pc |-> "idle", config |-> DefaultConfig]]
    /\ UNCHANGED <<now, wr, transcripts, sessions, tod, grants, idsAndLogs>>

\* The wall clock moves to the next time of day, or to the next day.
ClockAdvances ==
    /\ ret = NoResult
    /\ \/ \E k \in 1..(Len(Times) - 1) :
             /\ tod = Times[k]
             /\ tod' = Times[k + 1]
             /\ now' = now
       \/ /\ tod = Times[Len(Times)]
          /\ now < MaxNow
          /\ tod' = Times[1]
          /\ now' = now + 1
    /\ UNCHANGED <<files, logs, host, ret, wr, transcripts, sessions, config,
                   shows, grants, pgrp, idsAndLogs>>

\* The configurations at the start: every setting of the two switches, a
\* valid or invalid trigger time, and no last check or one that a hand edit
\* has left unreadable.
ConfigsAtStart ==
    {[auto_summarize_enabled |-> enabled,
      auto_summarize_time |-> time,
      last_auto_summarize_check |-> last,
      auto_summarize_on_show |-> on_show] :
        enabled \in BOOLEAN, time \in TimeTexts,
        last \in {None, Some(NotATimestamp)}, on_show \in BOOLEAN}

InitGate ==
    /\ files = [i \in {} |-> 0]
    /\ logs = {}
    /\ host = [pid \in AutoPids |-> NoProcess]
    /\ now = 0
    /\ ret = NoResult
    /\ wr = NoSave
    /\ transcripts = [p \in {} |-> 0]
    /\ sessions = {}
    /\ config \in ConfigsAtStart
    /\ tod = Times[1]
    /\ shows = [i \in Invocations |-> [pc |-> "idle", config |-> DefaultConfig]]
    /\ grants = [d \in 0..MaxNow |-> 0]
    /\ pgrp = {}
    /\ issued = <<>>
    /\ nanos = [sec |-> 0, word |-> <<0, 0>>, subsec |-> 0]
    /\ tasks = NoTasks
    /\ logtext = [i \in {} |-> 0]
    /\ follow = NoFollow

NextGate ==
    \/ \E i \in Invocations : ShowLoads(i)
    \/ \E i \in Invocations, daily_on_path \in BOOLEAN : ShowTriggers(i, daily_on_path)
    \/ ClockAdvances
    \/ Return

SpecGate == InitGate /\ [][NextGate]_vars

(* ------------------------------ properties ----------------------------- *)
\* The record stored for job i, as load_job reads it.
Info(i) == FromJson(files[i])
InfoAfter(i) == FromJson(files'[i])
IsTerminal(info) == info.status # Running
IsFailed(info) == Len(info.status) = 2
Reported(jobs, i) == {k \in 1..Len(jobs) : jobs[k].id = i}

\* C1: once a record is stored as Completed or Failed, no later
\* mark_completed, mark_failed, kill or list changes its status.
C1_TerminalStatusIsFinal ==
    [][ret'.op \in {"mark_completed", "mark_failed", "kill", "list"} =>
         \A i \in (DOMAIN files) \cap (DOMAIN files') :
            IsTerminal(Info(i)) => InfoAfter(i).status = Info(i).status]_vars

\* C2: every stored record has finished_at set iff its status is not
\* Running; a successful mark_completed / mark_failed leaves the expected
\* status with finished_at set.
C2_FinishedIffTerminal ==
    /\ \A i \in DOMAIN files : (Info(i).finished_at # None) <=> IsTerminal(Info(i))
    /\ (ret.op = "mark_completed" /\ ret.ok) =>
          /\ Info(ret.id).status = Completed
          /\ Info(ret.id).finished_at = Some(now)
    /\ (ret.op = "mark_failed" /\ ret.ok) =>
          /\ Info(ret.id).status = Failed(ret.arg)
          /\ Info(ret.id).finished_at = Some(now)

\* C2 witness: a mark_failed has returned on a record started earlier, while
\* another record is still Running.
C2_Witness ==
    /\ ret.op = "mark_failed" /\ ret.ok
    /\ Info(ret.id).started_at < now
    /\ \E i \in DOMAIN files : Info(i).status = Running

\* What list does to a record that is Running while its pid is absent, with
\* the error text msg: the stored record is Failed(msg) with finished_at
\* set, and the record is reported as Failed.
ReconciledBy(msg, i) ==
    /\ InfoAfter(i).status = Failed(msg)
    /\ InfoAfter(i).finished_at = Some(now)
    /\ Reported(ret'.val, i) # {}
    /\ \A k \in Reported(ret'.val, i) : ret'.val[k].status = Failed(msg)

C4_NoFailureOnInconclusiveProbe ==
    [][ret'.op = "list" =>
         \A i \in (DOMAIN files) \cap (DOMAIN files') :
            (Info(i).status = Running /\ InfoAfter(i).status # Running)
               => host[Info(i).pid] = "absent"]_vars

\* C5: a list that starts after a tracked job's process has terminated
\* leaves the job Failed, whether or not the controller that spawned it is
\* still running.
C5_SelfHealingOnNextList ==
    [][ret'.op = "list" =>
         \A i \in (DOMAIN files) \cap (DOMAIN files') :
            (Info(i).status = Running /\ host[Info(i).pid] # "live")
               => IsFailed(InfoAfter(i))]_vars

\* C6: cleanup(days) deletes a record or a log only if the record is
\* terminal and started before now - days; every other record stays in the
\* store unchanged, together with its log.
C6_CleanupRemovesOnlyOldTerminal ==
    [][ret'.op = "cleanup" =>
         /\ \A i \in (DOMAIN files) \ (DOMAIN files') :
               IsTerminal(Info(i)) /\ Info(i).started_at < now - ret'.arg.keep_days
         /\ \A i \in logs \ logs' :
               /\ i \in DOMAIN files
               /\ IsTerminal(Info(i)) /\ Info(i).started_at < now - ret'.arg.keep_days
         /\ \A i \in (DOMAIN files) \cap (DOMAIN files') : files'[i] = files[i]
         /\ \A i \in DOMAIN files :
               (Info(i).status = Running \/ Info(i).started_at >= now - ret'.arg.keep_days)
                  => i \in DOMAIN files' /\ (i \in logs => i \in logs')]_vars

\* C6 witness: cleanup has removed a job while a Running record older than
\* the cutoff is still in the store with its log.
C6_Witness ==
    /\ ret.op = "cleanup" /\ ret.arg.may_unlink /\ ret.val = 1
    /\ \E i \in DOMAIN files :
          /\ Info(i).status = Running
          /\ Info(i).started_at < now - ret.arg.keep_days
          /\ i \in logs

C8_KillFalseChangesNothing ==
    [][ret'.op = "kill" =>
         /\ ret'.arg.sent # {} =>
               /\ ret'.id \in DOMAIN files
               /\ Info(ret'.id).status = Running
               /\ ret'.arg.sent = {Info(ret'.id).pid}
         /\ ret'.id \in DOMAIN files => ret'.ok
         /\ (ret'.ok /\ ret'.val = FALSE) => (files' = files /\ logs' = logs)]_vars

\* C8 witness: kill has returned false because the signal was not
\* delivered, and the record is still Running.
C8_Witness ==
    /\ ret.op = "kill" /\ ret.ok /\ ret.val = FALSE
    /\ ret.arg.sent # {}
    /\ Info(ret.id).status = Running

\* C9: a mark_completed / mark_failed on a record that is already terminal
\* succeeds and leaves the record's status, error and finished_at as they
\* were.
C9_RepeatMarkIsNoOp ==
    [][(/\ ret'.op \in {"mark_completed", "mark_failed"}
        /\ ret'.id \in DOMAIN files
        /\ IsTerminal(Info(ret'.id))) =>
           ret'.ok /\ files'[ret'.id] = files[ret'.id]]_vars

\* C10: after register, load_job of the same id returns a record that is
\* Running, has no finished_at, and carries the registered pid, task name
\* and unit of work.
C10_RegisterThenLoad ==
    ret.op = "register" =>
       LET loaded == load_job(files, ret.id)
       IN  /\ ret.ok /\ loaded.ok
           /\ loaded.val.id = ret.id
           /\ loaded.val.status = Running
           /\ loaded.val.finished_at = None
           /\ loaded.val.started_at = now
           /\ loaded.val.pid = PidOf[ret.id]
           /\ loaded.val.task_name = UnitOf[ret.id].task_name
           /\ loaded.val.transcript_path = UnitOf[ret.id].transcript_path
           /\ loaded.val = ret.val

\* C10 witness: the second job has just been registered beside the first.
C10_Witness ==
    /\ ret.op = "register" /\ ret.id = "j2"
    /\ "j1" \in DOMAIN files


(* C11: a save is atomic for concurrent readers.  A load_job that runs
   while a save of the same id is in flight returns the complete record of
   before the save or the complete new one (for a record being registered:
   not found, or the new one) and never fails to parse; a list that includes
   terminal jobs reports every job that has a file. *)
CompleteRecords(i) ==
    IF wr.id = i
    THEN {from_str(wr.content).val} \cup
         (IF wr.before = None THEN {} ELSE {from_str(wr.before[1]).val})
    ELSE {from_str(files[i]).val}

C11_SaveIsAtomicForReaders ==
    [][ /\ (ret'.op = "load_job" /\ ret'.id \in DOMAIN files) =>
              /\ ret'.val # "Failed to parse job info"
              /\ ret'.ok => ret'.val \in CompleteRecords(ret'.id)
              /\ ~ret'.ok => (wr.id = ret'.id /\ wr.before = None)
        /\ (ret'.op = "list" /\ ret'.arg.include_completed) =>
              \A i \in DOMAIN files : Reported(ret'.val, i) # {} ]_vars


(* C12: cleanup with dry_run deletes no record and no log, and the jobs it
   reports as removable are exactly the jobs stored with a terminal status
   and a started_at before the cutoff; a job stored as Running is not
   reported, whatever its age.  (Stated for a caller that may signal the
   jobs' processes, so that the liveness probe is conclusive.) *)
C12_DryRunReportsStoredTerminal ==
    [][ (ret'.op = "cleanup_dry_run" /\ ret'.arg.perm) =>
          /\ DOMAIN files' = DOMAIN files
          /\ logs' = logs
          /\ {ret'.val[k].id : k \in 1..Len(ret'.val)} =
                {i \in DOMAIN files :
                    /\ IsTerminal(Info(i))
                    /\ Info(i).started_at < now - ret'.arg.days} ]_vars


(* C13: cleanup(days) removes the record and the log of every job stored
   with a terminal status and a started_at before the cutoff, and the count
   it returns is the number of jobs it has removed from the store. *)
C13_CleanupCountsWhatItRemoved ==
    [][ ret'.op = "cleanup" =>
          /\ \A i \in DOMAIN files :
                (IsTerminal(Info(i)) /\ Info(i).started_at < now - ret'.arg.keep_days)
                   => (i \notin DOMAIN files' /\ i \notin logs')
          /\ ret'.val = Cardinality((DOMAIN files) \ (DOMAIN files')) ]_vars


(* C14: a pass of the filter returns at most 3 units, and the auto-spawn
   attempt that runs it launches at most 3 processes. *)
C14_AtMostThreePerPass ==
    [][ ret'.op = "trigger_auto_summarize" =>
          /\ Len(ret'.val.found) <= 3
          /\ Cardinality({pid \in AutoPids :
                             host[pid] = NoProcess /\ host'[pid] = "live"}) <= 3 ]_vars

\* C14 witness: an attempt has launched three processes and has left a
\* fourth eligible unit for a later pass.
C14_Witness ==
    /\ ret.op = "trigger_auto_summarize"
    /\ Len(ret.val.found) = 3
    /\ Cardinality({pid \in AutoPids : host[pid] = "live"}) = 3
    /\ \A p \in Paths : transcripts[p] = StandardUnit(LocalSecs(now))
    /\ sessions = {}

(* C15: a unit already represented by a prior completed job is dropped by
   every later pass: in no state does a pass of the filter return the
   transcript of a job that is stored as Completed. *)
C15_SummarizedUnitIsDropped ==
    \A i \in DOMAIN files :
       Info(i).status = Completed =>
          \A order \in ReadDirOrders(transcripts) :
             LET found == find_unsummarized_transcripts(
                              transcripts, order, sessions, LocalSecs(now),
                              default_auto_summarize_inactive_minutes)
             IN  \A k \in 1..Len(found) : found[k] # Info(i).transcript_path

(* C16: the filter drops every unit modified within the inactivity window
   of 30 minutes, and keeps a unit modified longer ago than that (a unit of
   today or yesterday that is not archived and has a user message), unless
   the pass has stopped at 3 units. *)
AgeOf(p) == LocalSecs(now) - transcripts[p].mtime
HasUserText(p) ==
    /\ transcripts[p].readable
    /\ \E k \in 1..Len(transcripts[p].lines) :
          /\ transcripts[p].lines[k].type = "user"
          /\ transcripts[p].lines[k].content \notin {"", " ", "  "}
FromTodayOrYesterday(p) ==
    LocalDate(transcripts[p].mtime) \in
       {LocalDate(LocalSecs(now)), LocalDate(LocalSecs(now)) - 1}
FoundUnits(r) == {r.val.found[k] : k \in 1..Len(r.val.found)}

C17_ReturnedUnitsAreRecentAndNonEmpty ==
    [][ ret'.op = "trigger_auto_summarize" =>
          \A p \in FoundUnits(ret') :
             FromTodayOrYesterday(p) /\ HasUserText(p) ]_vars

\* C17 witness: a pass that has not reached its cap has left out a unit
\* whose only user message is white space, and has returned another unit.
C17_Witness ==
    /\ ret.op = "trigger_auto_summarize"
    /\ 0 < Len(ret.val.found) /\ Len(ret.val.found) < 3
    /\ \E p \in Paths \ FoundUnits(ret) :
          /\ AgeOf(p) = 40 * 60
          /\ transcripts[p].readable
          /\ ~HasUserText(p)
          /\ \E k \in 1..Len(transcripts[p].lines) :
                transcripts[p].lines[k].type = "user"

\* C18: with the every-invocation policy off, the time-based policy
\* authorizes at most one auto-spawn attempt per calendar day, however the
\* invocations of the dashboard command follow or overlap one another.
C18_AtMostOneTimedAttemptPerDay ==
    \A d \in 0..MaxNow : grants[d] <= 1

\* The time-based policy is due: auto-summarize is enabled, the local time is
\* at or after the trigger time, and the last check was not made today at
\* or after the trigger time.
TimeBasedDue ==
    LET trigger == parse_from_str(config.auto_summarize_time)
        last == config.last_auto_summarize_check
        CheckedToday ==
            /\ last # None
            /\ last[1].text = "rfc3339"
            /\ last[1].date = now
            /\ last[1].time >= trigger.val
    IN  /\ config.auto_summarize_enabled
        /\ trigger.ok
        /\ tod >= trigger.val
        /\ ~CheckedToday

\* C19: the time-based gate returns true exactly when auto-summarize is
\* enabled, the local time is at or after the trigger time and the last
\* check was not made today at or after the trigger time; it returns false
\* whenever auto-summarize is disabled, and true when it is enabled, no last
\* check is recorded and the trigger time has passed.
C19_TimeBasedGate ==
    [][(ret'.op = "gate" /\ ret'.val.time_based.called) =>
          LET timed == ret'.val.time_based
          IN  /\ (timed.ok /\ timed.val) <=> TimeBasedDue
              /\ ~config.auto_summarize_enabled => (timed.ok /\ ~timed.val)
              /\ ( /\ config.auto_summarize_enabled
                   /\ config.last_auto_summarize_check = None
                   /\ parse_from_str(config.auto_summarize_time).ok
                   /\ tod >= parse_from_str(config.auto_summarize_time).val )
                 => (timed.ok /\ timed.val)]_vars

\* The gate has declined because today's check was made at or after the
\* trigger time.
C19_Witness ==
    /\ ret.op = "gate"
    /\ ret.val.time_based.called
    /\ ret.val.time_based.ok
    /\ ~ret.val.time_based.val
    /\ config.auto_summarize_enabled
    /\ tod >= parse_from_str(config.auto_summarize_time).val
    /\ config.last_auto_summarize_check # None
    /\ config.last_auto_summarize_check[1].text = "rfc3339"
    /\ config.last_auto_summarize_check[1].date = now

\* C20 as stated: an attempt is authorized if and only if the
\* every-invocation policy's switch is on or the time-based policy is due.
C20_SwitchAloneAuthorizes ==
    [][ret'.op = "gate" =>
          (ret'.val.should_trigger <=>
              (config.auto_summarize_on_show \/ TimeBasedDue))]_vars

\* The settings and the state the other policy reads: the time-based
\* policy's trigger time and last check, the every-invocation policy's
\* switch.
LastChecks ==
    {None, Some(NotATimestamp)} \cup
    {Some(to_rfc3339(d, Times[k])) : d \in 0..MaxNow, k \in 1..Len(Times)}

\* C20: an attempt is authorized if and only if the every-invocation policy
\* is on (the master switch and the policy's own switch) or the time-based
\* policy is due; the every-invocation policy's decision is the same for
\* every trigger time and last check, and the time-based policy's for either
\* setting of the every-invocation switch.
C20_EitherPolicyAuthorizes ==
    [][ret'.op = "gate" =>
          /\ ret'.val.should_trigger <=>
                \/ (config.auto_summarize_enabled /\ config.auto_summarize_on_show)
                \/ TimeBasedDue
          /\ ret'.val.on_show <=>
                (config.auto_summarize_enabled /\ config.auto_summarize_on_show)
          /\ \A time \in TimeTexts, last \in LastChecks :
                should_trigger_auto_summarize_on_show(
                    [config EXCEPT !.auto_summarize_time = time,
                                   !.last_auto_summarize_check = last])
                = ret'.val.on_show
          /\ \A on_show \in BOOLEAN :
                should_trigger_auto_summarize(
                    [config EXCEPT !.auto_summarize_on_show = on_show], now, tod).val
                = TimeBasedDue]_vars

\* The every-invocation policy alone has authorized an attempt: before the
\* trigger time, with the time-based policy not consulted.
C20_Witness ==
    /\ ret.op = "gate"
    /\ ret.val.should_trigger
    /\ ret.val.on_show
    /\ ~ret.val.time_based.called
    /\ parse_from_str(config.auto_summarize_time).ok
    /\ tod < parse_from_str(config.auto_summarize_time).val

\* C21: in a batch a spawn failure for one unit is reported and does not
\* abort the batch: every candidate gets exactly one spawn attempt, and the
\* returned count is the number of units both spawned and registered.
C21_SpawnFailureDoesNotAbortBatch ==
    [][ret'.op = "trigger_auto_summarize" =>
          LET v == ret'.val
              units == {v.found[k] : k \in 1..Len(v.found)}
              Spawned(p) == host[AutoPid[p]] = NoProcess /\ host'[AutoPid[p]] = "live"
              Registered(p) == JobIdOf(p) \notin DOMAIN files
                               /\ JobIdOf(p) \in DOMAIN files'
          IN  /\ v.attempts = v.found
              /\ v.spawned_count =
                    Cardinality({p \in units : Spawned(p) /\ Registered(p)})
              /\ \A p \in units :
                    /\ p \in ret'.arg.spawn_ok <=> Spawned(p)
                    /\ ~Spawned(p) =>
                          \E m \in 1..Len(v.reported) :
                             v.reported[m] =
                                <<"Failed to spawn auto-summarize process", p>>]_vars

\* The first unit of a batch failed to spawn and the later ones were
\* spawned and registered.
C21_Witness ==
    /\ ret.op = "trigger_auto_summarize"
    /\ Len(ret.val.found) = MAX_AUTO_SUMMARIZE
    /\ ret.val.found[1] \notin ret.arg.spawn_ok
    /\ ret.val.reported # <<>>
    /\ ret.val.spawned_count = MAX_AUTO_SUMMARIZE - 1

\* C22: a job record is created only after its process has been spawned and
\* a pid obtained: no record exists for a unit whose spawn failed, and every
\* record's pid is the pid the spawn of that job returned.
C22_RecordOnlyAfterSpawn ==
    [][ /\ \A i \in (DOMAIN files') \ (DOMAIN files) :
              /\ from_str(files'[i]).ok
              /\ host[from_str(files'[i]).val.pid] = NoProcess
              /\ host'[from_str(files'[i]).val.pid] = "live"
              /\ from_str(files'[i]).val.pid =
                    IF i = HookJobId THEN HookPid
                    ELSE AutoPid[from_str(files'[i]).val.transcript_path]
        /\ ret'.op = "trigger_auto_summarize" =>
              \A k \in 1..Len(ret'.val.found) :
                 ret'.val.found[k] \notin ret'.arg.spawn_ok =>
                    JobIdOf(ret'.val.found[k]) \notin DOMAIN files'
        /\ (ret'.op = "session_end" /\ ~ret'.arg.spawned) =>
              HookJobId \notin DOMAIN files' ]_vars

\* The hook's spawn has failed: the log file is there and no record is.
C22_Witness ==
    /\ ret.op = "session_end"
    /\ ret.arg.enable_session_end
    /\ ~ret.arg.spawned
    /\ HookJobId \in logs
    /\ HookJobId \notin DOMAIN files
    /\ host[HookPid] = NoProcess

\* C23: every tracked job process, launched by the auto-summarize spawner
\* or by the session-end hook, is in a process group of its own, so a
\* termination signal delivered to the controller's process group does not
\* reach the job.
C23_GroupSignalSparesTrackedJobs ==
    [][ret'.op = "killpg" =>
          \A i \in DOMAIN files :
             from_str(files[i]).ok => from_str(files[i]).val.pid \notin ret'.val]_vars

\* C24: any two job ids generated within the same process and the same
\* second are distinct, for any task names including equal ones.
C24_IdsOfOneSecondDiffer ==
    \A i, j \in 1..Len(issued) :
       (i < j /\ issued[i].sec = issued[j].sec) => issued[i].id # issued[j].id

\* C25: job ids sort lexically in creation order: an id generated before
\* another is the smaller string, also within the same second.
C25_IdsSortInCreationOrder ==
    \A i, j \in 1..Len(issued) :
       i < j => LexLess(issued[i].id, issued[j].id)

\* C28: after truncate_log_if_needed the log's size is at or below the
\* cap; when truncation occurs the file is the marker line followed by the
\* last K lines of the original, K the number of lines in the trailing half.
C28_TruncatedLogIsWithinCap ==
    [][ret'.op = "truncate_log_if_needed" =>
          /\ LogJob \in logs => Size(logtext'[LogJob]) <= MAX_LOG_SIZE
          /\ logtext' # logtext =>
                LET lines == logtext[LogJob].lines
                    K == Len(lines) - (Len(lines) \div 2)
                    after == logtext'[LogJob].lines
                              \o (IF logtext'[LogJob].nl THEN <<LogLine(0, 0)>>
                                  ELSE <<>>)
                IN  /\ after[1] = MarkerLine(K)
                    /\ \A k \in 1..K :
                          /\ after[1 + k].len = lines[Len(lines) - K + k].len
                          /\ after[1 + k].len > 0 =>
                                after[1 + k] = lines[Len(lines) - K + k]]_vars

\* The text as the sequence of pieces between its "\n" separators.
SplitLines(text) ==
    IF text = EmptyText THEN <<>>
    ELSE text.lines \o (IF text.nl THEN <<LogLine(0, 0)>> ELSE <<>>)

\* C29: read_log returns the whole log when no tail is given, and otherwise
\* exactly the last min(N, L) of the log's L lines in their order; a
\* missing log file is an error, an existing empty log the empty result.
C29_ReadLogTail ==
    [][ret'.op = "read_log" =>
          /\ LogJob \notin logs <=> ~ret'.ok
          /\ LogJob \in logs =>
                LET lines == logtext[LogJob].lines
                    L == Len(lines)
                    tail == ret'.arg
                    K == IF tail[1] < L THEN tail[1] ELSE L
                    got == SplitLines(ret'.val)
                IN  /\ tail = None => ret'.val = logtext[LogJob]
                    /\ logtext[LogJob] = EmptyText => ret'.val = EmptyText
                    /\ tail # None =>
                          /\ Len(got) <= K
                          /\ \A k \in 1..Len(got) :
                                got[k].len = lines[L - K + k].len
                          /\ \A k \in 1..Len(got) :
                                got[k].len > 0 => got[k] = lines[L - K + k]
                          /\ \A k \in (Len(got) + 1)..K : lines[L - K + k].len = 0]_vars

\* A tail shorter than the log has been read.
C29_Witness ==
    /\ ret.op = "read_log"
    /\ ret.ok
    /\ ret.arg # None
    /\ ret.arg[1] > 0
    /\ ret.arg[1] < Len(logtext[LogJob].lines)
    /\ Len(ret.val.lines) = ret.arg[1]
    /\ ret.val.lines[1] = logtext[LogJob].lines[Len(logtext[LogJob].lines) - ret.arg[1] + 1]

\* C26: log-follow terminates: once the record of the followed job is no
\* longer Running, whatever the interleaving with the job's self-report,
\* kill, reconciliation and cleanup, the follow loop exits.
C26_FollowTerminates ==
    (/\ follow.pc \in {"polling", "reading"}
     /\ ~(load_job(files, LogJob).ok /\ load_job(files, LogJob).val.status = Running))
        ~> (follow.pc = "done")

\* C27: log-follow emits every byte of the log exactly once and in order:
\* what it has printed are adjoining ranges of the log starting at its
\* first byte, and when it stops they reach the end of the log it drained.
C27_EachByteEmittedOnce ==
    /\ follow.out # <<>> => follow.out[1][1] = 0
    /\ \A k \in 1..(Len(follow.out) - 1) : follow.out[k + 1][1] = follow.out[k][2]
    /\ follow.pc = "done" /\ follow.file_len > 0 =>
          /\ follow.out # <<>>
          /\ follow.out[Len(follow.out)][2] = follow.file_len

\* The id has a record: its file is in the jobs directory and is not one
\* that a registration in flight has created and not yet written.
HasRecord(id) == id \in DOMAIN files /\ ~(wr.id = id /\ wr.before = None)

\* C30: load, mark_completed, mark_failed and kill on an id without a
\* record fail with the error of the missing file, create no record and
\* change no record; jobs log and jobs kill report "Job not found" for such
\* an id and for no other outcome.
C30_NotFoundIsDistinct ==
    [][ret = NoResult =>
          /\ (/\ ret'.op \in {"load_job", "mark_completed", "mark_failed", "kill"}
              /\ ret'.id \notin DOMAIN files)
                => /\ ~ret'.ok
                   /\ ret'.val = "Failed to read job info"
                   /\ files' = files
          /\ ret'.op \in {"jobs log", "jobs kill"} =>
                /\ ~HasRecord(ret'.id) => ret'.val.error = "Job not found" /\ files' = files
                /\ ret'.val.error = "Job not found" => ~HasRecord(ret'.id)]_vars

\* The records a pass meets: those it can read and parse.
Met(unreadable) == {i \in (DOMAIN files) \ unreadable : from_str(files[i]).ok}

\* C31: list and cleanup fail only when the jobs directory cannot be read;
\* a record that cannot be read or parsed is passed over and left as it is,
\* and every other record is processed: listed, or removed when it is
\* terminal and older than the cutoff.
C31_BadRecordIsSkipped ==
    [][ret = NoResult /\ ret'.op \in {"list", "cleanup"} =>
          /\ ret'.ok <=> ret'.arg.dir_ok
          /\ ~ret'.ok => files' = files /\ logs' = logs
          /\ \A i \in (DOMAIN files) \ Met(ret'.arg.unreadable) :
                i \in DOMAIN files' /\ files'[i] = files[i]
          /\ ret'.ok /\ ret'.op = "list" =>
                {ret'.val[k].id : k \in 1..Len(ret'.val)} =
                   {i \in Met(ret'.arg.unreadable) :
                       \/ ret'.arg.include_completed
                       \/ Reconciled(Info(i), host, TRUE, now).status = Running}
          /\ ret'.ok /\ ret'.op = "cleanup" =>
                /\ (DOMAIN files) \ (DOMAIN files') =
                      {i \in Met(ret'.arg.unreadable) :
                          IsTerminal(Info(i)) /\ Info(i).started_at < now - ret'.arg.keep_days}
                /\ ret'.val = Cardinality((DOMAIN files) \ (DOMAIN files'))]_vars

\* list has returned a record although another one could not be parsed.
C31_Witness ==
    /\ ret.op = "list"
    /\ ret.ok
    /\ Len(ret.val) = 1
    /\ \E i \in DOMAIN files : ~from_str(files[i]).ok /\ i \notin ret.arg.unreadable

\* C32: list returns its records newest first by started_at, each stored
\* record at most once and as it is stored when list returns; without
\* include_completed they are exactly the records then stored as Running,
\* with it every stored record.
C32_ListNewestFirst ==
    [][ret = NoResult /\ ret'.op = "list" =>
          /\ ret'.ok
          /\ \A k \in 1..(Len(ret'.val) - 1) :
                ret'.val[k].started_at >= ret'.val[k + 1].started_at
          /\ \A k \in 1..Len(ret'.val) :
                /\ ret'.val[k].id \in DOMAIN files
                /\ ret'.val[k] = InfoAfter(ret'.val[k].id)
                /\ \A j \in 1..Len(ret'.val) : ret'.val[j].id = ret'.val[k].id => j = k
          /\ {ret'.val[k].id : k \in 1..Len(ret'.val)} =
                IF ret'.arg.include_completed THEN DOMAIN files
                ELSE {i \in DOMAIN files : InfoAfter(i).status = Running}]_vars

\* list has returned two records started at different times, one of them
\* no longer running.
C32_Witness ==
    /\ ret.op = "list"
    /\ Len(ret.val) = 2
    /\ ret.val[1].started_at > ret.val[2].started_at
    /\ \E k \in 1..2 : ret.val[k].status # Running

\* C33: a job invoked with its job id has reported its outcome into the
\* registry when it exits normally: its record is then Completed if the
\* summarization succeeded and Failed with the error text if it failed.
C33_SelfReportedBeforeExit ==
    tasks.job.pc = "exited" =>
        /\ load_job(files, RacedJob).ok
        /\ load_job(files, RacedJob).val.status =
              IF tasks.job.ok THEN Completed ELSE Failed("Failed to summarize session")

\* C34: an outcome the job has persisted itself is not overwritten by a
\* concurrent reconciliation or kill: once the job has written Completed,
\* the record is never stored as Failed("Process terminated unexpectedly")
\* or Failed("Killed by user").
C34_OwnOutcomeIsKept ==
    tasks.job.saved = "Completed" /\ load_job(files, RacedJob).ok =>
        load_job(files, RacedJob).val.status \notin
            {Failed("Process terminated unexpectedly"), Failed("Killed by user")}

\* C35: the record of a job id is registered before the child's
\* mark_completed or mark_failed for that id runs, whatever the
\* interleaving of the spawner and the child.
C35_RegisteredBeforeSelfReport ==
    [][tasks.job.pc = "summarized" /\ tasks'.job.pc = "reported" =>
          RacedJob \in DOMAIN files]_vars

\* C36: at any time at most one Running job exists per unit of work: no
\* two records stored as Running name the same transcript, whether their
\* jobs came from an auto-spawn pass or from the session-end hook.
C36_OneRunningJobPerUnit ==
    \A i, j \in DOMAIN files :
        (/\ from_str(files[i]).ok /\ from_str(files[j]).ok
         /\ Info(i).status = Running /\ Info(j).status = Running
         /\ Info(i).transcript_path = Info(j).transcript_path) => i = j

\* C37: cleanup with dry_run leaves the jobs directory unchanged: no
\* record's status or finished_at is rewritten and no file is created or
\* removed.
C37_DryRunLeavesDirectoryUnchanged ==
    [][ret = NoResult /\ ret'.op = "cleanup_dry_run" =>
          files' = files /\ logs' = logs]_vars

\* C38: digest deletes session files only after the daily summary has been
\* generated and saved, and only sessions whose content went into that
\* summary; when generation or saving fails every session file remains.
C38_DigestDeletesOnlyDigested ==
    /\ tasks.digest.deleted # {} => tasks.digest.saved
    /\ tasks.digest.deleted \subseteq tasks.digest.summary
    /\ tasks.digest.pc = "failed" => tasks.digest.summary \subseteq sessions

\* C39: every log file in the jobs directory has a metadata record with
\* the same job id: no spawn failure and no registration failure leaves a
\* log file without a record.
C39_EveryLogHasItsRecord == logs \subseteq DOMAIN files

\* char::is_uppercase, for the characters of the names considered.
IsUppercase(c) == c \in 65..90 \/ c \in {201, 304}

\* The character is a lowercase alphanumeric character or '-'.
LowerAlnumOrDash(c) == c = Dash \/ (is_alphanumeric(c) /\ ~IsUppercase(c))

Kept(name) == SubSeq(name, 1, IF Len(name) < 20 THEN Len(name) ELSE 20)

====
